---- MODULE Spec2Model ----
(***************************************************************************)
(* DeltaARM robot emulator: the shared EmulatorState record, its accessors *)
(* (emulator_state.py), the DeltaAPI primitives bound into the Lua runtime *)
(* and execute_script (lua_interpreter.py), and the direct REST callers    *)
(* (routes/delta_api.py).                                                  *)
(*                                                                         *)
(* A Lua script is represented by the sequence of primitive calls it makes *)
(* (its call trace); a faulting statement is the FAULT entry of that       *)
(* sequence.  Python dicts are functions whose DOMAIN is the key set.      *)
(* The one LuaRuntime serialises its callers: lua.execute holds the        *)
(* runtime's lock from the load of the chunk until it returns or raises,   *)
(* also while a primitive sleeps.                                          *)
(* Numbers are integers (pins, addresses, register values, coordinates).   *)
(***************************************************************************)
EXTENDS Integers, Sequences, FiniteSets, TLC

VARIABLES
    di_state, do_state, ext_di_state, ext_do_state, modbus_registers,
    current_position, joint_angles, global_points, motion_settings,
    script_output, script_running,
    pc, script, ip, val, exc, result, lua_lock, waited,
    own, busy_at_start, flag_at_return, runs, prior,
    call, prev, acc

\* EmulatorState's device fields (everything but the log and the busy flag).
device == <<di_state, do_state, ext_di_state, ext_do_state, modbus_registers,
            current_position, joint_angles, global_points, motion_settings>>
\* The script log and the busy flag.
logflag == <<script_output, script_running>>
\* Per execute_script caller: position, script, locals, result; the owner of
\* the LuaRuntime; and time.time() - start_time of the caller's WAIT, in ms.
runtime == <<pc, script, ip, val, exc, result, lua_lock, waited>>
\* History variables: the lines each invocation's primitives logged, whether
\* another invocation was in progress when it started, the busy flag as its
\* return left it, the number of invocations so far, and the level the output
\* held when the caller's last single-pin DO or ExtDO call was made.
marks == <<busy_at_start, flag_at_return, runs, prior>>
ghost == <<own, marks>>
\* The last direct accessor call with its return value, the register accessor
\* call made before the last one, and the frames of the callers that are inside
\* a register accessor.
calls == <<call, prev, acc>>
vars == <<device, logflag, runtime, ghost, calls>>

----------------------------------------------------------------------------
\* Python dict helpers.

\* d.get(k, default)
DictGet(d, k, default) == IF k \in DOMAIN d THEN d[k] ELSE default

\* d[k] = v  (insert or overwrite)
DictPut(d, k, v) == (k :> v) @@ d

\* The empty dict {}.
EmptyDict == <<>>

----------------------------------------------------------------------------
\* Integer arithmetic of the register code.  A Python int that may need more
\* than 31 bits (a register value handed to write_modbus or returned by
\* read_modbus) is kept in two limbs: the number hi * 2^16 + lo with lo in
\* 0..65535 and hi any integer (hi < 0 for a negative number).  Stored register
\* cells, pins and bit patterns are plain integers.

Big(hi, lo) == [hi |-> hi, lo |-> lo]

\* The limbs of a plain integer n: n >> 16 (floor) and n & 0xFFFF.
ToBig(n) == Big(n \div 65536, n % 65536)

\* value & 0xFFFF
Low16(value) == value.lo

\* (value >> 16) & 0xFFFF
High16(value) == value.hi % 65536

\* (high << 16) | (low & 0xFFFF) for plain integers high, low: the low 16 bits
\* of high << 16 are 0, so the result has limbs high and low & 0xFFFF.
Compose32(high, low) == Big(high, low % 65536)

\* (x >> i) & 1
BitOf(x, i) == (x \div (2 ^ i)) % 2

----------------------------------------------------------------------------
\* EmulatorState.__init__

InitDI == [i \in 1..24 |-> FALSE]

InitDO == [i \in 1..12 |-> FALSE]

InitPosition == [x |-> 0, y |-> 0, z |-> 0, rx |-> 0, ry |-> 0, rz |-> 0]

InitJoints == [j \in 1..6 |-> 0]

InitMotion == [spdj |-> 10, accj |-> 10, decj |-> 10, spdl |-> 100,
               accl |-> 10, decl |-> 10, accur |-> "HIGH"]

InitDevice ==
    /\ di_state = InitDI
    /\ do_state = InitDO
    /\ ext_di_state = EmptyDict
    /\ ext_do_state = EmptyDict
    /\ modbus_registers = EmptyDict
    /\ current_position = InitPosition
    /\ joint_angles = InitJoints
    /\ global_points = <<>>
    /\ motion_settings = InitMotion
    /\ script_output = <<>>
    /\ script_running = FALSE

----------------------------------------------------------------------------
\* EmulatorState accessors, as functions of the field they read or write.

get_di(di, pin) == IF pin \notin DOMAIN di THEN FALSE ELSE di[pin]

\* set_di without its range check.
set_di_unchecked(di, pin, state) == DictPut(di, pin, state)

set_di(di, pin, state) == IF 1 <= pin /\ pin <= 24 THEN DictPut(di, pin, state) ELSE di

get_do(do, pin) == IF pin \notin DOMAIN do THEN FALSE ELSE do[pin]

set_do(do, pin, state) == IF 1 <= pin /\ pin <= 12 THEN DictPut(do, pin, state) ELSE do

read_modbus(regs, address, size) ==
    IF size = "DW"
    THEN LET low == DictGet(regs, address, 0)
             high == DictGet(regs, address + 1, 0)
         IN Compose32(high, low)
    ELSE ToBig(DictGet(regs, address, 0))

\* write_modbus that stores the high half without masking it.
write_modbus_high_unmasked(regs, address, value, size) ==
    IF size = "DW"
    THEN DictPut(DictPut(regs, address, Low16(value)), address + 1, value.hi)
    ELSE DictPut(regs, address, Low16(value))

\* write_modbus that masks a word with 0xFF.
write_modbus_mask8(regs, address, value, size) ==
    IF size = "DW"
    THEN DictPut(DictPut(regs, address, Low16(value)), address + 1, High16(value))
    ELSE DictPut(regs, address, Low16(value) % 256)

\* write_modbus that masks a word with 0x1FFFF.
write_modbus_mask17(regs, address, value, size) ==
    IF size = "DW"
    THEN DictPut(DictPut(regs, address, Low16(value)), address + 1, High16(value))
    ELSE DictPut(regs, address, (value.hi % 2) * 65536 + value.lo)

\* write_modbus that puts the high half at address and the low half at address + 1.
write_modbus_swapped(regs, address, value, size) ==
    IF size = "DW"
    THEN DictPut(DictPut(regs, address, High16(value)), address + 1, Low16(value))
    ELSE DictPut(regs, address, Low16(value))

write_modbus(regs, address, value, size) ==
    IF size = "DW"
    THEN DictPut(DictPut(regs, address, Low16(value)), address + 1, High16(value))
    ELSE DictPut(regs, address, Low16(value))

\* set_global_point that moves an overwritten key to the end of the table.
set_global_point_reinsert(points, point_num, data) ==
    IF 1 <= point_num /\ point_num <= 1000
    THEN Append(SelectSeq(points, LAMBDA it : it.slot # point_num),
                [slot |-> point_num, data |-> data])
    ELSE points

\* set_global_point without the range check.
set_global_point_unchecked(points, point_num, data) ==
    IF \E i \in 1..Len(points) : points[i].slot = point_num
    THEN [i \in 1..Len(points) |->
             IF points[i].slot = point_num
             THEN [slot |-> point_num, data |-> data] ELSE points[i]]
    ELSE Append(points, [slot |-> point_num, data |-> data])

\* set_global_point: the table is an insertion-ordered dict, kept as the sequence
\* of its items; assigning an existing key keeps its place.
set_global_point(points, point_num, data) ==
    IF 1 <= point_num /\ point_num <= 1000
    THEN IF \E i \in 1..Len(points) : points[i].slot = point_num
         THEN [i \in 1..Len(points) |->
                  IF points[i].slot = point_num
                  THEN [slot |-> point_num, data |-> data] ELSE points[i]]
         ELSE Append(points, [slot |-> point_num, data |-> data])
    ELSE points

\* get_global_point with an int: global_points.get(point); <<>> is None.
get_global_point_num(points, point) ==
    IF \E i \in 1..Len(points) : points[i].slot = point
    THEN <<points[CHOOSE i \in 1..Len(points) : points[i].slot = point].data>>
    ELSE <<>>

\* get_global_point with a str that lets the last item carrying the name win.
get_global_point_name_last(points, point) ==
    LET hits == {i \in 1..Len(points) : points[i].data.name = point}
    IN IF hits = {} THEN <<>>
       ELSE <<points[CHOOSE i \in hits : \A j \in hits : i >= j].data>>

\* get_global_point with a str: the first item in dict order carrying the name.
get_global_point_name(points, point) ==
    LET hits == {i \in 1..Len(points) : points[i].data.name = point}
    IN IF hits = {} THEN <<>>
       ELSE <<points[CHOOSE i \in hits : \A j \in hits : i <= j].data>>

\* move_to_position that keeps the rotation fields at their defaults.
move_to_position_xyz(x, y, z, rx, ry, rz) ==
    [x |-> x, y |-> y, z |-> z, rx |-> 0, ry |-> 0, rz |-> 0]

move_to_position(x, y, z, rx, ry, rz) ==
    [x |-> x, y |-> y, z |-> z, rx |-> rx, ry |-> ry, rz |-> rz]

add_log(log, message) == Append(log, message)

clear_logs == <<>>

get_logs(log) == log

----------------------------------------------------------------------------
\* Text rendering used by the log lines.

\* str.upper() on the status words a script passes.
Upper(s) ==
    CASE s = "on" -> "ON"
      [] s = "off" -> "OFF"
      [] s = "On" -> "ON"
      [] s = "di" -> "DI"
      [] s = "do" -> "DO"
      [] OTHER -> s

OnOff(b) == IF b THEN "ON" ELSE "OFF"

HexDigits == <<"0", "1", "2", "3", "4", "5", "6", "7",
               "8", "9", "A", "B", "C", "D", "E", "F">>

RECURSIVE HexStr(_)
HexStr(n) ==
    IF n < 16 THEN HexDigits[n + 1]
    ELSE HexStr(n \div 16) \o HexDigits[(n % 16) + 1]

\* f"0x{address:04X}" for address >= 0
Hex04(address) ==
    "0x" \o (IF address < 16 THEN "000"
             ELSE IF address < 256 THEN "00"
             ELSE IF address < 4096 THEN "0" ELSE "") \o HexStr(address)

\* str(n) for a two-limb n >= 0: decimal digits by long division by 10.
RECURSIVE BigStr(_)
BigStr(n) ==
    LET rest == (n.hi % 10) * 65536 + n.lo
        quotient == Big(n.hi \div 10, rest \div 10)
        digit == ToString(rest % 10)
    IN IF quotient = Big(0, 0) THEN digit ELSE BigStr(quotient) \o digit

\* A Lua value handed back to the script: nil, an integer (two limbs) or a string.
LuaNil == [kind |-> "nil", i |-> Big(0, 0), s |-> ""]
LuaInt(n) == [kind |-> "int", i |-> n, s |-> ""]
LuaStr(t) == [kind |-> "str", i |-> Big(0, 0), s |-> t]

\* str(arg)
PyStr(v) ==
    CASE v.kind = "int" -> BigStr(v.i)
      [] v.kind = "str" -> v.s
      [] OTHER -> "None"

----------------------------------------------------------------------------
\* Scripts: the sequence of primitive calls a Lua chunk makes.

NoOp == [op |-> "none", pin_index |-> 0, status |-> "", length |-> 0, status_num |-> 0,
         has_delay |-> FALSE, delay_time |-> 0, address |-> 0, size |-> "W", value |-> 0,
         by_name |-> FALSE, point_num |-> 0, name |-> "", x |-> 0, y |-> 0, z |-> 0,
         joint |-> 0, degree |-> 0, item |-> "", use_val |-> FALSE, text |-> "",
         io_type |-> "", has_timeout |-> FALSE, timeout |-> 0]

\* DO(pin, status) / DO(pin, status, delay)
OpDO(pin, status) == [NoOp EXCEPT !.op = "DO", !.pin_index = pin, !.status = status]
OpDOd(pin, status, delay) ==
    [NoOp EXCEPT !.op = "DO", !.pin_index = pin, !.status = status,
                 !.has_delay = TRUE, !.delay_time = delay]
\* DO(pin, length, status_num) / DO(pin, length, status_num, delay)
OpDOm(pin, length, num) ==
    [NoOp EXCEPT !.op = "DOm", !.pin_index = pin, !.length = length, !.status_num = num]
OpDOmd(pin, length, num, delay) ==
    [NoOp EXCEPT !.op = "DOm", !.pin_index = pin, !.length = length, !.status_num = num,
                 !.has_delay = TRUE, !.delay_time = delay]
\* DI(pin) / DI(pin, length)
OpDI(pin) == [NoOp EXCEPT !.op = "DI", !.pin_index = pin]
OpDIm(pin, length) == [NoOp EXCEPT !.op = "DIm", !.pin_index = pin, !.length = length]
OpExtDI(address, pin) == [NoOp EXCEPT !.op = "ExtDI", !.address = address, !.pin_index = pin]
OpExtDO(address, pin, status) ==
    [NoOp EXCEPT !.op = "ExtDO", !.address = address, !.pin_index = pin, !.status = status]
OpExtDOd(address, pin, status, delay) ==
    [NoOp EXCEPT !.op = "ExtDO", !.address = address, !.pin_index = pin, !.status = status,
                 !.has_delay = TRUE, !.delay_time = delay]
OpMovP(point) == [NoOp EXCEPT !.op = "MovP", !.point_num = point]
OpMovPn(name) == [NoOp EXCEPT !.op = "MovP", !.by_name = TRUE, !.name = name]
OpMovL(point) == [NoOp EXCEPT !.op = "MovL", !.point_num = point]
OpMovLn(name) == [NoOp EXCEPT !.op = "MovL", !.by_name = TRUE, !.name = name]
OpMovJ(joint, degree) == [NoOp EXCEPT !.op = "MovJ", !.joint = joint, !.degree = degree]
OpSetGlobalPoint(point_num, name, x, y, z) ==
    [NoOp EXCEPT !.op = "SetGlobalPoint", !.point_num = point_num, !.name = name,
                 !.x = x, !.y = y, !.z = z]
OpReadPoint(point, item) == [NoOp EXCEPT !.op = "ReadPoint", !.point_num = point, !.item = item]
OpSpdJ(speed) == [NoOp EXCEPT !.op = "SpdJ", !.value = speed]
OpDELAY(delay) == [NoOp EXCEPT !.op = "DELAY", !.has_delay = TRUE, !.delay_time = delay]
OpReadModbus(address, size) ==
    [NoOp EXCEPT !.op = "ReadModbus", !.address = address, !.size = size]
OpWriteModbus(address, size, value) ==
    [NoOp EXCEPT !.op = "WriteModbus", !.address = address, !.size = size, !.value = value]
\* WAIT(io_type, index, status) / WAIT(io_type, index, status, timeoutMs)
OpWAIT(io_type, index, status) ==
    [NoOp EXCEPT !.op = "WAIT", !.io_type = io_type, !.pin_index = index, !.status = status]
OpWAITt(io_type, index, status, timeoutMs) ==
    [NoOp EXCEPT !.op = "WAIT", !.io_type = io_type, !.pin_index = index, !.status = status,
                 !.has_timeout = TRUE, !.timeout = timeoutMs]
\* WAIT(var, address, data_type, value)
OpWAITm(address, data_type, value) ==
    [NoOp EXCEPT !.op = "WAITm", !.address = address, !.size = data_type, !.value = value]
\* print("text") / print(v), v the value the last reading primitive returned
OpPrint(text) == [NoOp EXCEPT !.op = "print", !.text = text]
OpPrintVal == [NoOp EXCEPT !.op = "print", !.use_val = TRUE]
\* A statement that raises: a syntax error, a primitive called with a wrong
\* argument shape, error(...).
OpFault(message) == [NoOp EXCEPT !.op = "FAULT", !.text = message]

----------------------------------------------------------------------------
\* The DeltaAPI primitives as functions of the state they touch.

\* DI(pin, length): result |= (1 << i) for every ON pin pin_index + i, i < length
RECURSIVE DI_multi(_, _, _)
DI_multi(di, pin_index, length) ==
    IF length <= 0 THEN 0
    ELSE DI_multi(di, pin_index, length - 1)
         + (IF get_di(di, pin_index + (length - 1)) THEN 2 ^ (length - 1) ELSE 0)

\* The set loop taking bit i + 1 for pin i.
RECURSIVE DO_set_loop_shifted(_, _, _, _)
DO_set_loop_shifted(do, pin_index, length, status_num) ==
    IF length <= 0 THEN do
    ELSE set_do(DO_set_loop_shifted(do, pin_index, length - 1, status_num),
                pin_index + (length - 1), BitOf(status_num, length) = 1)

\* DO(pin, length, status_num): the loop of set_do over i in range(length)
RECURSIVE DO_set_loop(_, _, _, _)
DO_set_loop(do, pin_index, length, status_num) ==
    IF length <= 0 THEN do
    ELSE set_do(DO_set_loop(do, pin_index, length - 1, status_num),
                pin_index + (length - 1), BitOf(status_num, length - 1) = 1)

\* DO(pin, length, status_num, delay): the loop that reverses all states
RECURSIVE DO_reverse_loop(_, _, _)
DO_reverse_loop(do, pin_index, length) ==
    IF length <= 0 THEN do
    ELSE LET before == DO_reverse_loop(do, pin_index, length - 1)
             pin == pin_index + (length - 1)
         IN set_do(before, pin, ~get_do(before, pin))

\* ReadPoint's item_map followed by point_data.get(key)
ReadPoint_item(point_data, item) ==
    LET u == Upper(item)
    IN CASE u = "X" -> LuaInt(ToBig(point_data.x))
         [] u = "Y" -> LuaInt(ToBig(point_data.y))
         [] u = "Z" -> LuaInt(ToBig(point_data.z))
         [] u = "RX" -> LuaInt(ToBig(point_data.rx))
         [] u = "RY" -> LuaInt(ToBig(point_data.ry))
         [] u = "RZ" -> LuaInt(ToBig(point_data.rz))
         [] u = "UF" -> LuaInt(ToBig(point_data.uf))
         [] u = "TF" -> LuaInt(ToBig(point_data.tf))
         [] u = "E" -> LuaInt(ToBig(point_data.elbow))
         [] u = "S" -> LuaInt(ToBig(point_data.shoulder))
         [] u = "F" -> LuaInt(ToBig(point_data.flip))
         [] OTHER -> LuaNil

\* SetGlobalPoint's point_data with the optional arguments at their defaults
PointData(name, x, y, z) ==
    [name |-> name, x |-> x, y |-> y, z |-> z, rx |-> 0, ry |-> 0, rz |-> 0,
     elbow |-> 0, shoulder |-> 0, flip |-> 0, uf |-> 0, tf |-> 0,
     jrc |-> <<0, 0, 0, 0, 0, 0, 0, 0>>]

----------------------------------------------------------------------------
\* execute_script and the primitives, one caller t at a time.

Threads == {"t1", "t2"}

\* Invocations of execute_script in one behaviour.
MaxRuns == 2

NoResult == [status |-> "none", output |-> <<>>, error |-> <<>>]

InitRuntime ==
    /\ pc = [t \in Threads |-> "idle"]
    /\ script = [t \in Threads |-> <<>>]
    /\ ip = [t \in Threads |-> 1]
    /\ val = [t \in Threads |-> LuaNil]
    /\ exc = [t \in Threads |-> ""]
    /\ result = [t \in Threads |-> NoResult]
    /\ lua_lock = "free"
    /\ waited = [t \in Threads |-> 0]
    /\ prior = [t \in Threads |-> FALSE]
    /\ own = [t \in Threads |-> <<>>]
    /\ busy_at_start = [t \in Threads |-> FALSE]
    /\ flag_at_return = [t \in Threads |-> FALSE]
    /\ runs = 0

Cur(t) == script[t][ip[t]]

AtOp(t, ops) == pc[t] = "run" /\ ip[t] <= Len(script[t]) /\ Cur(t).op \in ops

Asleep(t, ops) == pc[t] = "sleep" /\ Cur(t).op \in ops

\* The primitive returns and the chunk goes on with its next statement.
Proceed(t) == pc' = [pc EXCEPT ![t] = "run"] /\ ip' = [ip EXCEPT ![t] = @ + 1]

\* The primitive is inside time.sleep.
Sleep(t) == pc' = [pc EXCEPT ![t] = "sleep"] /\ ip' = ip

ProceedOrSleep(t) == IF Cur(t).has_delay THEN Sleep(t) ELSE Proceed(t)

\* emulator_state.add_log(message) by caller t
Log(t, message) ==
    /\ script_output' = add_log(script_output, message)
    /\ own' = [own EXCEPT ![t] = Append(@, message)]

NoLog == UNCHANGED <<script_output, own>>

\* execute_script that does not clear the log.
execute_script_begin_keep_log(t, s) ==
    /\ pc[t] = "idle"
    /\ runs < MaxRuns
    /\ script_output' = script_output
    /\ script_running' = TRUE
    /\ pc' = [pc EXCEPT ![t] = "enter"]
    /\ script' = [script EXCEPT ![t] = s]
    /\ ip' = [ip EXCEPT ![t] = 1]
    /\ val' = [val EXCEPT ![t] = LuaNil]
    /\ exc' = [exc EXCEPT ![t] = ""]
    /\ result' = [result EXCEPT ![t] = NoResult]
    /\ own' = [own EXCEPT ![t] = <<>>]
    /\ busy_at_start' = [busy_at_start EXCEPT ![t] = \E u \in Threads \ {t} : pc[u] # "idle"]
    /\ runs' = runs + 1
    /\ UNCHANGED <<device, flag_at_return, prior, lua_lock, waited, calls>>

\* execute_script that re-initialises the outputs.
execute_script_begin_reset_outputs(t, s) ==
    /\ pc[t] = "idle"
    /\ runs < MaxRuns
    /\ script_output' = clear_logs
    /\ script_running' = TRUE
    /\ pc' = [pc EXCEPT ![t] = "enter"]
    /\ script' = [script EXCEPT ![t] = s]
    /\ ip' = [ip EXCEPT ![t] = 1]
    /\ val' = [val EXCEPT ![t] = LuaNil]
    /\ exc' = [exc EXCEPT ![t] = ""]
    /\ result' = [result EXCEPT ![t] = NoResult]
    /\ own' = [own EXCEPT ![t] = <<>>]
    /\ busy_at_start' = [busy_at_start EXCEPT ![t] = \E u \in Threads \ {t} : pc[u] # "idle"]
    /\ runs' = runs + 1
    /\ do_state' = InitDO
    /\ UNCHANGED <<di_state, ext_di_state, ext_do_state, modbus_registers,
                   current_position, joint_angles, global_points, motion_settings>>
    /\ UNCHANGED <<flag_at_return, prior, lua_lock, waited, calls>>

\* lines 337-338: clear_logs(); script_running = True
execute_script_begin(t, s) ==
    /\ pc[t] = "idle"
    /\ runs < MaxRuns
    /\ script_output' = clear_logs
    /\ script_running' = TRUE
    /\ pc' = [pc EXCEPT ![t] = "enter"]
    /\ script' = [script EXCEPT ![t] = s]
    /\ ip' = [ip EXCEPT ![t] = 1]
    /\ val' = [val EXCEPT ![t] = LuaNil]
    /\ exc' = [exc EXCEPT ![t] = ""]
    /\ result' = [result EXCEPT ![t] = NoResult]
    /\ own' = [own EXCEPT ![t] = <<>>]
    /\ busy_at_start' = [busy_at_start EXCEPT ![t] = \E u \in Threads \ {t} : pc[u] # "idle"]
    /\ runs' = runs + 1
    /\ UNCHANGED <<device, flag_at_return, prior, lua_lock, waited, calls>>

\* lines 344-348 and 355-356: lua.execute returned
execute_script_success(t) ==
    /\ pc[t] = "returning"
    /\ result' = [result EXCEPT ![t] =
                     [status |-> "success", output |-> get_logs(script_output),
                      error |-> <<>>]]
    /\ script_running' = FALSE
    /\ flag_at_return' = [flag_at_return EXCEPT ![t] = script_running']
    /\ pc' = [pc EXCEPT ![t] = "idle"]
    /\ UNCHANGED <<device, script_output, script, ip, val, exc, lua_lock, own, busy_at_start,
                   runs, prior, waited, calls>>

\* lines 349-356: an exception left lua.execute
execute_script_error(t) ==
    /\ pc[t] = "raised"
    /\ result' = [result EXCEPT ![t] =
                     [status |-> "error", output |-> get_logs(script_output),
                      error |-> <<exc[t]>>]]
    /\ script_running' = FALSE
    /\ flag_at_return' = [flag_at_return EXCEPT ![t] = script_running']
    /\ pc' = [pc EXCEPT ![t] = "idle"]
    /\ UNCHANGED <<device, script_output, script, ip, val, exc, lua_lock, own, busy_at_start,
                   runs, prior, waited, calls>>

\* line 342: lua.execute gets the runtime and starts on the chunk.
lua_execute(t) ==
    /\ pc[t] = "enter"
    /\ lua_lock = "free"
    /\ lua_lock' = t
    /\ pc' = [pc EXCEPT ![t] = "run"]
    /\ UNCHANGED <<device, logflag, script, ip, val, exc, result, ghost, waited, calls>>

\* line 342: the chunk ran to its end, lua.execute returns.
lua_execute_return(t) ==
    /\ pc[t] = "run"
    /\ ip[t] > Len(script[t])
    /\ lua_lock' = "free"
    /\ pc' = [pc EXCEPT ![t] = "returning"]
    /\ UNCHANGED <<device, logflag, script, ip, val, exc, result, ghost, waited, calls>>

\* A statement raises (LuaSyntaxError, LuaError, TypeError from a primitive)
\* and the exception leaves lua.execute.
Fault(t) ==
    /\ AtOp(t, {"FAULT"})
    /\ pc' = [pc EXCEPT ![t] = "raised"]
    /\ exc' = [exc EXCEPT ![t] = Cur(t).text]
    /\ lua_lock' = "free"
    /\ UNCHANGED <<device, logflag, script, ip, val, result, ghost, waited, calls>>

DI(t) ==
    /\ AtOp(t, {"DI", "DIm"})
    /\ val' = [val EXCEPT ![t] =
                  IF Cur(t).op = "DIm"
                  THEN LuaInt(ToBig(DI_multi(di_state, Cur(t).pin_index, Cur(t).length)))
                  ELSE LuaStr(OnOff(get_di(di_state, Cur(t).pin_index)))]
    /\ Proceed(t)
    /\ NoLog
    /\ UNCHANGED <<device, script_running, script, exc, result, lua_lock, marks, waited, calls>>

\* DO, single pin mode, up to the sleep
DO_single(t) ==
    /\ AtOp(t, {"DO"})
    /\ LET status == Upper(Cur(t).status) = "ON"
       IN /\ do_state' = set_do(do_state, Cur(t).pin_index, status)
          /\ Log(t, "DO(" \o ToString(Cur(t).pin_index) \o ", " \o OnOff(status) \o ")")
    /\ prior' = [prior EXCEPT ![t] = get_do(do_state, Cur(t).pin_index)]
    /\ ProceedOrSleep(t)
    /\ UNCHANGED <<di_state, ext_di_state, ext_do_state, modbus_registers,
                   current_position, joint_angles, global_points, motion_settings>>
    /\ UNCHANGED <<script_running, script, val, exc, result, lua_lock,
                   busy_at_start, flag_at_return, runs, waited, calls>>

\* The reversal that toggles the level it finds.
DO_single_toggle(t) ==
    /\ Asleep(t, {"DO"})
    /\ LET status == Upper(Cur(t).status) = "ON"
       IN /\ do_state' = set_do(do_state, Cur(t).pin_index,
                                ~get_do(do_state, Cur(t).pin_index))
          /\ Log(t, "DO(" \o ToString(Cur(t).pin_index) \o ", " \o OnOff(~status)
                    \o ") after delay")
    /\ Proceed(t)
    /\ UNCHANGED <<di_state, ext_di_state, ext_do_state, modbus_registers,
                   current_position, joint_angles, global_points, motion_settings>>
    /\ UNCHANGED <<script_running, script, val, exc, result, lua_lock, marks, waited, calls>>

\* DO, single pin mode, after the sleep: the reversal
DO_single_reverse(t) ==
    /\ Asleep(t, {"DO"})
    /\ LET status == Upper(Cur(t).status) = "ON"
       IN /\ do_state' = set_do(do_state, Cur(t).pin_index, ~status)
          /\ Log(t, "DO(" \o ToString(Cur(t).pin_index) \o ", " \o OnOff(~status)
                    \o ") after delay")
    /\ Proceed(t)
    /\ UNCHANGED <<di_state, ext_di_state, ext_do_state, modbus_registers,
                   current_position, joint_angles, global_points, motion_settings>>
    /\ UNCHANGED <<script_running, script, val, exc, result, lua_lock, marks, waited, calls>>

\* DO, multiple pin mode, up to the sleep
DO_multi(t) ==
    /\ AtOp(t, {"DOm"})
    /\ do_state' = DO_set_loop(do_state, Cur(t).pin_index, Cur(t).length, Cur(t).status_num)
    /\ Log(t, "DO(" \o ToString(Cur(t).pin_index) \o ", " \o ToString(Cur(t).length)
              \o ", " \o ToString(Cur(t).status_num) \o ")")
    /\ ProceedOrSleep(t)
    /\ UNCHANGED <<di_state, ext_di_state, ext_do_state, modbus_registers,
                   current_position, joint_angles, global_points, motion_settings>>
    /\ UNCHANGED <<script_running, script, val, exc, result, lua_lock, marks, waited, calls>>

\* The reversal that writes the complement of the bit pattern.
DO_multi_reverse_bits(t) ==
    /\ Asleep(t, {"DOm"})
    /\ do_state' = DO_set_loop(do_state, Cur(t).pin_index, Cur(t).length,
                               -1 - Cur(t).status_num)
    /\ NoLog
    /\ Proceed(t)
    /\ UNCHANGED <<di_state, ext_di_state, ext_do_state, modbus_registers,
                   current_position, joint_angles, global_points, motion_settings>>
    /\ UNCHANGED <<script_running, script, val, exc, result, lua_lock, marks, waited, calls>>

\* DO, multiple pin mode, after the sleep: reverse all states
DO_multi_reverse(t) ==
    /\ Asleep(t, {"DOm"})
    /\ do_state' = DO_reverse_loop(do_state, Cur(t).pin_index, Cur(t).length)
    /\ NoLog
    /\ Proceed(t)
    /\ UNCHANGED <<di_state, ext_di_state, ext_do_state, modbus_registers,
                   current_position, joint_angles, global_points, motion_settings>>
    /\ UNCHANGED <<script_running, script, val, exc, result, lua_lock, marks, waited, calls>>

ExtDI(t) ==
    /\ AtOp(t, {"ExtDI"})
    /\ val' = [val EXCEPT ![t] =
                  LuaStr(OnOff(DictGet(ext_di_state, <<Cur(t).address, Cur(t).pin_index>>, FALSE)))]
    /\ Proceed(t)
    /\ NoLog
    /\ UNCHANGED <<device, script_running, script, exc, result, lua_lock, marks, waited, calls>>

\* ExtDO up to the sleep
ExtDO(t) ==
    /\ AtOp(t, {"ExtDO"})
    /\ ext_do_state' = DictPut(ext_do_state, <<Cur(t).address, Cur(t).pin_index>>,
                               Upper(Cur(t).status) = "ON")
    /\ Log(t, "ExtDO(" \o ToString(Cur(t).address) \o ", " \o ToString(Cur(t).pin_index)
              \o ", " \o Cur(t).status \o ")")
    /\ prior' = [prior EXCEPT ![t] =
                    DictGet(ext_do_state, <<Cur(t).address, Cur(t).pin_index>>, FALSE)]
    /\ ProceedOrSleep(t)
    /\ UNCHANGED <<di_state, do_state, ext_di_state, modbus_registers,
                   current_position, joint_angles, global_points, motion_settings>>
    /\ UNCHANGED <<script_running, script, val, exc, result, lua_lock,
                   busy_at_start, flag_at_return, runs, waited, calls>>

\* ExtDO after the sleep, writing the same level again.
ExtDO_reverse_keep(t) ==
    /\ Asleep(t, {"ExtDO"})
    /\ ext_do_state' = DictPut(ext_do_state, <<Cur(t).address, Cur(t).pin_index>>,
                               Upper(Cur(t).status) = "ON")
    /\ NoLog
    /\ Proceed(t)
    /\ UNCHANGED <<di_state, do_state, ext_di_state, modbus_registers,
                   current_position, joint_angles, global_points, motion_settings>>
    /\ UNCHANGED <<script_running, script, val, exc, result, lua_lock, marks, waited, calls>>

\* ExtDO after the sleep
ExtDO_reverse(t) ==
    /\ Asleep(t, {"ExtDO"})
    /\ ext_do_state' = DictPut(ext_do_state, <<Cur(t).address, Cur(t).pin_index>>,
                               ~(Upper(Cur(t).status) = "ON"))
    /\ NoLog
    /\ Proceed(t)
    /\ UNCHANGED <<di_state, do_state, ext_di_state, modbus_registers,
                   current_position, joint_angles, global_points, motion_settings>>
    /\ UNCHANGED <<script_running, script, val, exc, result, lua_lock, marks, waited, calls>>

\* str(point) in the MovP / MovL lines
PointRef(o) == IF o.by_name THEN o.name ELSE ToString(o.point_num)

\* MovP / MovL that send the arm home when the point is not found.
MovP_MovL_home(t) ==
    /\ AtOp(t, {"MovP", "MovL"})
    /\ LET o == Cur(t)
           point_data == IF o.by_name THEN get_global_point_name(global_points, o.name)
                         ELSE get_global_point_num(global_points, o.point_num)
       IN IF point_data # <<>>
          THEN LET d == point_data[1]
               IN /\ current_position' = move_to_position(d.x, d.y, d.z, DictGet(d, "rx", 0),
                                                         DictGet(d, "ry", 0), DictGet(d, "rz", 0))
                  /\ Log(t, o.op \o "(" \o PointRef(o) \o ") -> (" \o ToString(d.x) \o ", "
                            \o ToString(d.y) \o ", " \o ToString(d.z) \o ")")
          ELSE /\ current_position' = InitPosition
               /\ Log(t, o.op \o "(" \o PointRef(o) \o ") - Point not found")
    /\ Proceed(t)
    /\ UNCHANGED <<di_state, do_state, ext_di_state, ext_do_state, modbus_registers,
                   joint_angles, global_points, motion_settings>>
    /\ UNCHANGED <<script_running, script, val, exc, result, lua_lock, marks, waited, calls>>

\* MovP and MovL have the same body but for the name in the log line
MovP_MovL(t) ==
    /\ AtOp(t, {"MovP", "MovL"})
    /\ LET o == Cur(t)
           point_data == IF o.by_name THEN get_global_point_name(global_points, o.name)
                         ELSE get_global_point_num(global_points, o.point_num)
       IN IF point_data # <<>>
          THEN LET d == point_data[1]
               IN /\ current_position' = move_to_position(d.x, d.y, d.z, DictGet(d, "rx", 0),
                                                         DictGet(d, "ry", 0), DictGet(d, "rz", 0))
                  /\ Log(t, o.op \o "(" \o PointRef(o) \o ") -> (" \o ToString(d.x) \o ", "
                            \o ToString(d.y) \o ", " \o ToString(d.z) \o ")")
          ELSE /\ current_position' = current_position
               /\ Log(t, o.op \o "(" \o PointRef(o) \o ") - Point not found")
    /\ Proceed(t)
    /\ UNCHANGED <<di_state, do_state, ext_di_state, ext_do_state, modbus_registers,
                   joint_angles, global_points, motion_settings>>
    /\ UNCHANGED <<script_running, script, val, exc, result, lua_lock, marks, waited, calls>>

\* MovJ taking the joint number as the index of the list.
MovJ_zero_based(t) ==
    /\ AtOp(t, {"MovJ"})
    /\ IF 0 <= Cur(t).joint /\ Cur(t).joint <= 5
       THEN /\ joint_angles' = [joint_angles EXCEPT ![Cur(t).joint + 1] = Cur(t).degree]
            /\ Log(t, "MovJ(Joint " \o ToString(Cur(t).joint) \o ", "
                      \o ToString(Cur(t).degree) \o "deg)")
       ELSE /\ joint_angles' = joint_angles
            /\ NoLog
    /\ Proceed(t)
    /\ UNCHANGED <<di_state, do_state, ext_di_state, ext_do_state, modbus_registers,
                   current_position, global_points, motion_settings>>
    /\ UNCHANGED <<script_running, script, val, exc, result, lua_lock, marks, waited, calls>>

\* The degree sign of the log line is written "deg".
MovJ(t) ==
    /\ AtOp(t, {"MovJ"})
    /\ IF 1 <= Cur(t).joint /\ Cur(t).joint <= 6
       THEN /\ joint_angles' = [joint_angles EXCEPT ![Cur(t).joint] = Cur(t).degree]
            /\ Log(t, "MovJ(Joint " \o ToString(Cur(t).joint) \o ", "
                      \o ToString(Cur(t).degree) \o "deg)")
       ELSE /\ joint_angles' = joint_angles
            /\ NoLog
    /\ Proceed(t)
    /\ UNCHANGED <<di_state, do_state, ext_di_state, ext_do_state, modbus_registers,
                   current_position, global_points, motion_settings>>
    /\ UNCHANGED <<script_running, script, val, exc, result, lua_lock, marks, waited, calls>>

SetGlobalPoint(t) ==
    /\ AtOp(t, {"SetGlobalPoint"})
    /\ LET o == Cur(t)
       IN /\ global_points' = set_global_point(global_points, o.point_num,
                                               PointData(o.name, o.x, o.y, o.z))
          /\ Log(t, "SetGlobalPoint(" \o ToString(o.point_num) \o ", '" \o o.name \o "', "
                    \o ToString(o.x) \o ", " \o ToString(o.y) \o ", " \o ToString(o.z) \o ")")
    /\ Proceed(t)
    /\ UNCHANGED <<di_state, do_state, ext_di_state, ext_do_state, modbus_registers,
                   current_position, joint_angles, motion_settings>>
    /\ UNCHANGED <<script_running, script, val, exc, result, lua_lock, marks, waited, calls>>

ReadPoint(t) ==
    /\ AtOp(t, {"ReadPoint"})
    /\ LET o == Cur(t)
           point_data == IF o.by_name THEN get_global_point_name(global_points, o.name)
                         ELSE get_global_point_num(global_points, o.point_num)
       IN val' = [val EXCEPT ![t] =
                     IF point_data = <<>> THEN LuaNil
                     ELSE ReadPoint_item(point_data[1], o.item)]
    /\ Proceed(t)
    /\ NoLog
    /\ UNCHANGED <<device, script_running, script, exc, result, lua_lock, marks, waited, calls>>

SpdJ(t) ==
    /\ AtOp(t, {"SpdJ"})
    /\ motion_settings' = [motion_settings EXCEPT !.spdj = Cur(t).value]
    /\ Log(t, "SpdJ(" \o ToString(Cur(t).value) \o "%)")
    /\ Proceed(t)
    /\ UNCHANGED <<di_state, do_state, ext_di_state, ext_do_state, modbus_registers,
                   current_position, joint_angles, global_points>>
    /\ UNCHANGED <<script_running, script, val, exc, result, lua_lock, marks, waited, calls>>

\* DELAY up to the sleep
DELAY(t) ==
    /\ AtOp(t, {"DELAY"})
    /\ Log(t, "DELAY(" \o ToString(Cur(t).delay_time) \o "s)")
    /\ Sleep(t)
    /\ UNCHANGED <<device, script_running, script, val, exc, result, lua_lock, marks, waited, calls>>

\* DELAY after the sleep
DELAY_wake(t) ==
    /\ Asleep(t, {"DELAY"})
    /\ Proceed(t)
    /\ NoLog
    /\ UNCHANGED <<device, script_running, script, val, exc, result, lua_lock, marks, waited, calls>>

\* time.sleep(0.01) of the WAIT loops, in ms.
PollInterval == 10

\* The largest time.time() - start_time kept apart; beyond it the value stays.
MaxWaited == 40

\* time.time() - start_time after one more time.sleep(0.01): the sleep lasts
\* the interval or longer.
Elapse(w) ==
    {IF w + d > MaxWaited THEN MaxWaited ELSE w + d : d \in {PollInterval, PollInterval + 5}}

\* The pass that tests the deadline before it looks at the line.
WAIT_pass_deadline_first(t, logged, elapsed) ==
    LET o == Cur(t)
        status == Upper(o.status) = "ON"
        current == IF Upper(o.io_type) = "DI" THEN get_di(di_state, o.pin_index)
                   ELSE get_do(do_state, o.pin_index)
        timed_out == o.has_timeout /\ o.timeout # 0 /\ elapsed >= o.timeout
        lines == IF timed_out THEN Append(logged, "WAIT timeout") ELSE logged
    IN /\ script_output' = script_output \o lines
       /\ own' = [own EXCEPT ![t] = @ \o lines]
       /\ IF current = status \/ timed_out THEN Proceed(t) ELSE Sleep(t)

\* One pass of the DI / DO loop of WAIT (lines 233-246) by caller t, after the
\* lines logged so far in this step, with elapsed = time.time() - start_time.
WAIT_pass(t, logged, elapsed) ==
    LET o == Cur(t)
        status == Upper(o.status) = "ON"
        current == IF Upper(o.io_type) = "DI" THEN get_di(di_state, o.pin_index)
                   ELSE get_do(do_state, o.pin_index)
        timed_out == o.has_timeout /\ o.timeout # 0 /\ elapsed >= o.timeout
        lines == IF current # status /\ timed_out THEN Append(logged, "WAIT timeout")
                 ELSE logged
    IN /\ script_output' = script_output \o lines
       /\ own' = [own EXCEPT ![t] = @ \o lines]
       /\ IF current = status \/ timed_out THEN Proceed(t) ELSE Sleep(t)

\* WAIT on DI / DO, lines 222-246, up to the first sleep
WAIT(t) ==
    /\ AtOp(t, {"WAIT"})
    /\ waited' = [waited EXCEPT ![t] = 0]
    /\ WAIT_pass(t, <<"WAIT(" \o Upper(Cur(t).io_type) \o ", " \o ToString(Cur(t).pin_index)
                       \o ", " \o OnOff(Upper(Cur(t).status) = "ON") \o ")">>, 0)
    /\ UNCHANGED <<device, script_running, script, val, exc, result, lua_lock, marks, calls>>

\* WAIT on DI / DO after a sleep: the next pass of the loop
WAIT_poll(t) ==
    /\ Asleep(t, {"WAIT"})
    /\ \E elapsed \in Elapse(waited[t]) :
           /\ waited' = [waited EXCEPT ![t] = elapsed]
           /\ WAIT_pass(t, <<>>, elapsed)
    /\ UNCHANGED <<device, script_running, script, val, exc, result, lua_lock, marks, calls>>

\* One pass of the register loop of WAIT (lines 255-259)
WAIT_modbus_pass(t) ==
    IF read_modbus(modbus_registers, Cur(t).address, Cur(t).size) = ToBig(Cur(t).value)
    THEN Proceed(t) ELSE Sleep(t)

\* WAIT on a register, lines 247-259, up to the first sleep
WAIT_modbus(t) ==
    /\ AtOp(t, {"WAITm"})
    /\ Log(t, "WAIT(Modbus, " \o Hex04(Cur(t).address) \o ", " \o Cur(t).size \o ", "
              \o ToString(Cur(t).value) \o ")")
    /\ WAIT_modbus_pass(t)
    /\ UNCHANGED <<device, script_running, script, val, exc, result, lua_lock, marks, waited, calls>>

\* WAIT on a register after a sleep
WAIT_modbus_poll(t) ==
    /\ Asleep(t, {"WAITm"})
    /\ NoLog
    /\ WAIT_modbus_pass(t)
    /\ UNCHANGED <<device, script_running, script, val, exc, result, lua_lock, marks, waited, calls>>

ReadModbus(t) ==
    /\ AtOp(t, {"ReadModbus"})
    /\ LET value == read_modbus(modbus_registers, Cur(t).address, Cur(t).size)
       IN /\ val' = [val EXCEPT ![t] = LuaInt(value)]
          /\ Log(t, "ReadModbus(" \o Hex04(Cur(t).address) \o ", " \o Cur(t).size
                    \o ") = " \o BigStr(value))
    /\ Proceed(t)
    /\ UNCHANGED <<device, script_running, script, exc, result, lua_lock, marks, waited, calls>>

WriteModbus(t) ==
    /\ AtOp(t, {"WriteModbus"})
    /\ modbus_registers' = write_modbus(modbus_registers, Cur(t).address,
                                        ToBig(Cur(t).value), Cur(t).size)
    /\ Log(t, "WriteModbus(" \o Hex04(Cur(t).address) \o ", " \o Cur(t).size \o ", "
              \o ToString(Cur(t).value) \o ")")
    /\ Proceed(t)
    /\ UNCHANGED <<di_state, do_state, ext_di_state, ext_do_state,
                   current_position, joint_angles, global_points, motion_settings>>
    /\ UNCHANGED <<script_running, script, val, exc, result, lua_lock, marks, waited, calls>>

\* print that drops the value it is given.
Lua_print_text(t) ==
    /\ AtOp(t, {"print"})
    /\ Log(t, "[PRINT] " \o Cur(t).text)
    /\ Proceed(t)
    /\ UNCHANGED <<device, script_running, script, val, exc, result, lua_lock, marks, waited, calls>>

\* print with one argument
Lua_print(t) ==
    /\ AtOp(t, {"print"})
    /\ Log(t, "[PRINT] " \o (IF Cur(t).use_val THEN PyStr(val[t]) ELSE Cur(t).text))
    /\ Proceed(t)
    /\ UNCHANGED <<device, script_running, script, val, exc, result, lua_lock, marks, waited, calls>>

----------------------------------------------------------------------------
\* Direct accessor calls (the REST handlers and any other in-process caller).

NoCall == [fn |-> "none", pin |-> 0, state |-> FALSE, address |-> 0, value |-> Big(0, 0),
           size |-> "W", ret |-> Big(0, 0), retb |-> FALSE,
           by_name |-> FALSE, point_num |-> 0, name |-> "", data |-> <<>>, retp |-> <<>>,
           pose |-> <<>>]

\* Direct callers that can be inside a register accessor at the same time; a
\* caller of execute_script has a frame too, for the read_modbus calls of WAIT.
Callers == {"c1", "c2"}

\* The frame of a caller outside the register accessors: where it is, the
\* accessor it entered last, its arguments, the local low and the return value.
\* before is the double word the cells held when a write was entered, and
\* whole collects the double words the cells held, or were being given by a
\* write, from the entry of a read on.
NoFrame == [at |-> "out", fn |-> "none", address |-> 0, value |-> Big(0, 0), low |-> 0,
            ret |-> Big(0, 0), before |-> Big(0, 0), whole |-> {}]

InitCalls ==
    call = NoCall /\ prev = NoCall /\ acc = [c \in Callers \cup Threads |-> NoFrame]

\* Pins offered to the accessors: both ends of both ranges and their neighbours.
PinInputs == {-1, 0, 1, 12, 13, 24, 25}

\* set_di that waits until no script is asleep.
CallSetDI_blocked(pin, state) ==
    /\ \A t \in DOMAIN pc : pc[t] # "sleep"
    /\ di_state' = set_di(di_state, pin, state)
    /\ call' = [NoCall EXCEPT !.fn = "set_di", !.pin = pin, !.state = state]
    /\ prev' = prev
    /\ UNCHANGED <<do_state, ext_di_state, ext_do_state, modbus_registers,
                   current_position, joint_angles, global_points, motion_settings>>
    /\ UNCHANGED <<logflag, runtime, ghost, acc>>

CallSetDI(pin, state) ==
    /\ di_state' = set_di(di_state, pin, state)
    /\ call' = [NoCall EXCEPT !.fn = "set_di", !.pin = pin, !.state = state]
    /\ prev' = prev
    /\ UNCHANGED <<do_state, ext_di_state, ext_do_state, modbus_registers,
                   current_position, joint_angles, global_points, motion_settings>>
    /\ UNCHANGED <<logflag, runtime, ghost, acc>>

CallGetDI(pin) ==
    /\ call' = [NoCall EXCEPT !.fn = "get_di", !.pin = pin, !.retb = get_di(di_state, pin)]
    /\ prev' = prev
    /\ UNCHANGED <<device, logflag, runtime, ghost, acc>>

CallSetDO(pin, state) ==
    /\ do_state' = set_do(do_state, pin, state)
    /\ call' = [NoCall EXCEPT !.fn = "set_do", !.pin = pin, !.state = state]
    /\ prev' = prev
    /\ UNCHANGED <<di_state, ext_di_state, ext_do_state, modbus_registers,
                   current_position, joint_angles, global_points, motion_settings>>
    /\ UNCHANGED <<logflag, runtime, ghost, acc>>

CallGetDO(pin) ==
    /\ call' = [NoCall EXCEPT !.fn = "get_do", !.pin = pin, !.retb = get_do(do_state, pin)]
    /\ prev' = prev
    /\ UNCHANGED <<device, logflag, runtime, ghost, acc>>

\* Register addresses and values offered to the accessors.
BaseAddress == 4096
AddressInputs == {BaseAddress, BaseAddress + 1}
\* 0, 999, 70000, 0x12345678, 0xFFFFFFFF, -1, -70000 and 2^32 + 5
ValueInputs == {Big(0, 0), Big(0, 999), Big(1, 4464), Big(4660, 22136),
                Big(65535, 65535), Big(-1, 65535), Big(-2, 61072), Big(65536, 5)}
SizeInputs == {"W", "DW"}

CallReadModbus(address, size) ==
    /\ call' = [NoCall EXCEPT !.fn = "read_modbus", !.address = address, !.size = size,
                              !.ret = read_modbus(modbus_registers, address, size)]
    /\ prev' = call
    /\ UNCHANGED <<device, logflag, runtime, ghost, acc>>

CallWriteModbus(address, value, size) ==
    /\ modbus_registers' = write_modbus(modbus_registers, address, value, size)
    /\ call' = [NoCall EXCEPT !.fn = "write_modbus", !.address = address,
                              !.value = value, !.size = size]
    /\ prev' = call
    /\ UNCHANGED <<di_state, do_state, ext_di_state, ext_do_state,
                   current_position, joint_angles, global_points, motion_settings>>
    /\ UNCHANGED <<logflag, runtime, ghost, acc>>

\* value & 0xFFFFFFFF on two limbs
Masked32(value) == Big(value.hi % 65536, value.lo)

\* The double word held by the cells address and address + 1.
DoubleWordAt(regs, address) ==
    Big(DictGet(regs, address + 1, 0), DictGet(regs, address, 0))

\* The register accessors of double-word size statement by statement: another
\* thread can run between the two dict accesses of a call.

\* write_modbus(address, value, 'DW'), line 163
write_modbus_low(c, address, value) ==
    /\ acc[c].at = "out"
    /\ modbus_registers' = DictPut(modbus_registers, address, Low16(value))
    /\ acc' = [d \in DOMAIN acc |->
                  IF d = c
                  THEN [NoFrame EXCEPT !.at = "write_high", !.fn = "write_modbus",
                                       !.address = address, !.value = value,
                                       !.before = DoubleWordAt(modbus_registers, address)]
                  ELSE IF acc[d].at = "read_high" /\ acc[d].address = address
                  THEN [acc[d] EXCEPT !.whole = @ \cup {Masked32(value)}]
                  ELSE acc[d]]
    /\ UNCHANGED <<di_state, do_state, ext_di_state, ext_do_state,
                   current_position, joint_angles, global_points, motion_settings>>
    /\ UNCHANGED <<logflag, runtime, ghost, call, prev>>

\* write_modbus(address, value, 'DW'), line 164 and the return
write_modbus_high(c) ==
    /\ acc[c].at = "write_high"
    /\ modbus_registers' = DictPut(modbus_registers, acc[c].address + 1, High16(acc[c].value))
    /\ acc' = [acc EXCEPT ![c].at = "out"]
    /\ UNCHANGED <<di_state, do_state, ext_di_state, ext_do_state,
                   current_position, joint_angles, global_points, motion_settings>>
    /\ UNCHANGED <<logflag, runtime, ghost, call, prev>>

\* read_modbus(address, 'DW'), line 145
read_modbus_low(c, address) ==
    /\ acc[c].at = "out"
    /\ acc' = [acc EXCEPT ![c] =
                  [NoFrame EXCEPT
                      !.at = "read_high", !.fn = "read_modbus", !.address = address,
                      !.low = DictGet(modbus_registers, address, 0),
                      !.whole =
                          IF \E d \in Callers : acc[d].at = "write_high" /\ acc[d].address = address
                          THEN UNION {{acc[d].before, Masked32(acc[d].value)} :
                                         d \in {e \in Callers : /\ acc[e].at = "write_high"
                                                                /\ acc[e].address = address}}
                          ELSE {DoubleWordAt(modbus_registers, address)}]]
    /\ UNCHANGED <<device, logflag, runtime, ghost, call, prev>>

\* read_modbus(address, 'DW'), lines 146-147
read_modbus_high(c) ==
    /\ acc[c].at = "read_high"
    /\ LET high == DictGet(modbus_registers, acc[c].address + 1, 0)
       IN acc' = [acc EXCEPT ![c].at = "out", ![c].ret = Compose32(high, acc[c].low)]
    /\ UNCHANGED <<device, logflag, runtime, ghost, call, prev>>

\* WAIT on a register of double-word size, statement by statement: the log
\* line when the call starts, then line 255 up to the first get of read_modbus
\* (emulator_state.py line 145).
WAIT_modbus_low(t) ==
    /\ pc[t] \in {"run", "sleep"} /\ ip[t] <= Len(script[t]) /\ Cur(t).size = "DW"
    /\ \/ /\ AtOp(t, {"WAITm"})
          /\ Log(t, "WAIT(Modbus, " \o Hex04(Cur(t).address) \o ", " \o Cur(t).size \o ", "
                    \o ToString(Cur(t).value) \o ")")
       \/ /\ Asleep(t, {"WAITm"})
          /\ NoLog
    /\ acc' = [acc EXCEPT ![t] =
                  [NoFrame EXCEPT !.at = "read_high", !.fn = "read_modbus",
                                  !.address = Cur(t).address,
                                  !.low = DictGet(modbus_registers, Cur(t).address, 0)]]
    /\ pc' = [pc EXCEPT ![t] = "poll"]
    /\ UNCHANGED <<device, script_running, script, ip, val, exc, result, lua_lock, marks,
                   waited, call, prev>>

\* The second get of read_modbus and its return (emulator_state.py lines
\* 146-147), then the comparison and the break or the sleep (lines 256-259).
WAIT_modbus_high(t) ==
    /\ pc[t] = "poll"
    /\ LET current == Compose32(DictGet(modbus_registers, acc[t].address + 1, 0), acc[t].low)
       IN /\ acc' = [acc EXCEPT ![t].at = "out", ![t].ret = current]
          /\ IF current = ToBig(Cur(t).value) THEN Proceed(t) ELSE Sleep(t)
    /\ NoLog
    /\ UNCHANGED <<device, script_running, script, val, exc, result, lua_lock, marks,
                   waited, call, prev>>

\* Slots, names and records offered to the point accessors.
PointSlots == {0, 1, 1000, 1001}
PointNames == {"GL_P1", "GL_P2"}
PointInputs == {PointData(n, x, 200, -100) : n \in PointNames, x \in {200, 300}}

CallSetGlobalPoint(point_num, data) ==
    /\ global_points' = set_global_point(global_points, point_num, data)
    /\ call' = [NoCall EXCEPT !.fn = "set_global_point", !.point_num = point_num,
                              !.data = <<data>>]
    /\ prev' = prev
    /\ UNCHANGED <<di_state, do_state, ext_di_state, ext_do_state, modbus_registers,
                   current_position, joint_angles, motion_settings>>
    /\ UNCHANGED <<logflag, runtime, ghost, acc>>

\* get_global_point(point) with an int
CallGetGlobalPointNum(point) ==
    /\ call' = [NoCall EXCEPT !.fn = "get_global_point", !.point_num = point,
                              !.retp = get_global_point_num(global_points, point)]
    /\ prev' = prev
    /\ UNCHANGED <<device, logflag, runtime, ghost, acc>>

\* get_global_point(point) with a str
CallGetGlobalPointName(point) ==
    /\ call' = [NoCall EXCEPT !.fn = "get_global_point", !.by_name = TRUE, !.name = point,
                              !.retp = get_global_point_name(global_points, point)]
    /\ prev' = prev
    /\ UNCHANGED <<device, logflag, runtime, ghost, acc>>

\* The pose as RobotPositionAPI.get reads it.
CallReadPose ==
    /\ call' = [NoCall EXCEPT !.fn = "current_position",
                              !.pose = <<[position |-> current_position,
                                          joint_angles |-> joint_angles,
                                          motion_settings |-> motion_settings]>>]
    /\ prev' = prev
    /\ UNCHANGED <<device, logflag, runtime, ghost, acc>>

----------------------------------------------------------------------------
\* Specifications.

Init == InitDevice /\ InitRuntime /\ InitCalls

\* The chunks offered to execute_script.
Scripts ==
    { <<OpDO(1, "ON"), OpDELAY(1), OpDO(1, "off")>>,
      <<OpDOd(2, "ON", 1), OpFault("attempt to call a nil value")>>,
      <<OpFault("unexpected symbol")>>,
      <<OpWriteModbus(BaseAddress, "W", 999), OpReadModbus(BaseAddress, "W"), OpPrintVal>>,
      <<OpDOmd(11, 3, 5, 1), OpDIm(1, 2)>>,
      <<OpSetGlobalPoint(5, "GL_P1", 200, 200, -100), OpMovP(5), OpMovJ(1, 30)>>,
      <<OpExtDOd(1, 2, "ON", 1), OpExtDI(1, 2), OpSpdJ(50)>>,
      <<OpReadPoint(5, "X"), OpMovJ(7, 10), OpMovLn("GL_P2")>> }

Step(t) ==
    \/ lua_execute(t)
    \/ lua_execute_return(t)
    \/ Fault(t)
    \/ DI(t)
    \/ DO_single(t)
    \/ DO_single_reverse(t)
    \/ DO_multi(t)
    \/ DO_multi_reverse(t)
    \/ ExtDI(t)
    \/ ExtDO(t)
    \/ ExtDO_reverse(t)
    \/ MovP_MovL(t)
    \/ MovJ(t)
    \/ SetGlobalPoint(t)
    \/ ReadPoint(t)
    \/ SpdJ(t)
    \/ DELAY(t)
    \/ DELAY_wake(t)
    \/ ReadModbus(t)
    \/ WriteModbus(t)
    \/ Lua_print(t)
    \/ execute_script_success(t)
    \/ execute_script_error(t)

\* Callers invoke execute_script whenever they like (one thread per request).
Next ==
    \E t \in Threads :
        \/ \E s \in Scripts : execute_script_begin(t, s)
        \/ Step(t)

Spec == Init /\ [][Next]_vars

\* Callers that wait for the running script to return before the next request.
SequentialBegin(t, s) ==
    /\ \A u \in Threads : pc[u] = "idle"
    /\ execute_script_begin(t, s)

NextSeq ==
    \E t \in Threads :
        \/ \E s \in Scripts : SequentialBegin(t, s)
        \/ Step(t)

SpecSeq == Init /\ [][NextSeq]_vars

\* Direct calls of the digital I/O accessors, while one caller runs scripts
\* that drive the outputs.
IOScripts ==
    { <<OpDOmd(11, 3, 5, 1), OpDI(25)>>,
      <<OpDOd(13, "ON", 1), OpDO(0, "ON")>> }

NextIO ==
    \/ \E pin \in PinInputs :
           \/ \E state \in BOOLEAN : CallSetDI(pin, state)
           \/ CallGetDI(pin)
           \/ \E state \in BOOLEAN : CallSetDO(pin, state)
           \/ CallGetDO(pin)
    \/ \E s \in IOScripts : execute_script_begin("t1", s)
    \/ lua_execute("t1")
    \/ lua_execute_return("t1")
    \/ DI("t1")
    \/ DO_single("t1")
    \/ DO_single_reverse("t1")
    \/ DO_multi("t1")
    \/ DO_multi_reverse("t1")
    \/ execute_script_success("t1")

SpecIO == Init /\ [][NextIO]_vars

\* Direct calls of the register accessors.
NextReg ==
    \E address \in AddressInputs, size \in SizeInputs :
        \/ CallReadModbus(address, size)
        \/ \E value \in ValueInputs : CallWriteModbus(address, value, size)

SpecReg == Init /\ [][NextReg]_vars

\* One caller running chunks that make a single multiple-pin DO call.
DOStartPins == {0, 1, 5, 9, 11, 12}
DOLengths == {0, 1, 2, 4}
DOPatterns == {0, 5, 10, 15, 26, -1, -6}
DOScripts == {<<OpDOm(p, n, b)>> : p \in DOStartPins, n \in DOLengths, b \in DOPatterns}

NextDO ==
    \/ \E s \in DOScripts : execute_script_begin("t1", s)
    \/ lua_execute("t1")
    \/ lua_execute_return("t1")
    \/ DO_multi("t1")
    \/ execute_script_success("t1")

SpecDO == Init /\ [][NextDO]_vars

\* Direct calls of the point accessors, while one caller runs chunks that move
\* to points by slot and by name.
PtScripts ==
    { <<OpMovP(1), OpMovLn("GL_P2")>>,
      <<OpMovPn("GL_P1"), OpMovL(1000)>>,
      <<OpMovJ(2, 45), OpMovP(0), OpMovLn("GL_P3")>> }

NextPt ==
    \/ \E point_num \in PointSlots, data \in PointInputs : CallSetGlobalPoint(point_num, data)
    \/ \E point \in PointSlots \cup {6} : CallGetGlobalPointNum(point)
    \/ \E point \in PointNames \cup {"GL_P3"} : CallGetGlobalPointName(point)
    \/ \E s \in PtScripts : execute_script_begin("t1", s)
    \/ lua_execute("t1")
    \/ lua_execute_return("t1")
    \/ MovP_MovL("t1")
    \/ MovJ("t1")
    \/ execute_script_success("t1")

SpecPt == Init /\ [][NextPt]_vars

\* One caller running chunks that make a single WAIT call with a timeout,
\* while the polled lines are driven by direct calls.  The thread of the
\* script keeps running: its steps are taken under weak fairness.
WaitTimeouts == {0, 10, 25}
TimedWaits == {<<OpWAITt(io, 1, "ON", ms)>> : io \in {"DI", "do"}, ms \in WaitTimeouts}

TimedStep ==
    \/ lua_execute("t1")
    \/ WAIT("t1")
    \/ WAIT_poll("t1")
    \/ lua_execute_return("t1")
    \/ execute_script_success("t1")

NextTimed ==
    \/ \E s \in TimedWaits : execute_script_begin("t1", s)
    \/ TimedStep
    \/ \E state \in BOOLEAN : CallSetDI(1, state)
    \/ \E state \in BOOLEAN : CallSetDO(1, state)

SpecTimed == Init /\ [][NextTimed]_vars /\ WF_vars(TimedStep)

\* One caller running chunks that make a single WAIT call on a line, with and
\* without a timeout, while direct calls drive the polled lines.
WaitScripts ==
    TimedWaits
        \cup {<<OpWAIT(io, 1, s)>> : io \in {"DI", "DO"}, s \in {"ON", "off"}}
        \cup {<<OpWAITt("DI", 1, "OFF", 10)>>, <<OpWAITt("DO", 13, "ON", 25)>>}

NextWait ==
    \/ \E s \in WaitScripts : execute_script_begin("t1", s)
    \/ lua_execute("t1")
    \/ WAIT("t1")
    \/ WAIT_poll("t1")
    \/ lua_execute_return("t1")
    \/ execute_script_success("t1")
    \/ \E state \in BOOLEAN : CallSetDI(1, state)
    \/ \E state \in BOOLEAN : CallSetDO(1, state)

SpecWait == Init /\ [][NextWait]_vars

\* One caller running chunks that make a single WAIT call on a double-word
\* register, while another caller writes double words to it.
TornValues == {Big(1, 2), Big(3, 4)}
TornScripts == {<<OpWAITm(BaseAddress, "DW", v)>> : v \in {196610, 196612}}

NextTorn ==
    \/ \E value \in TornValues : CallWriteModbus(BaseAddress, value, "DW")
    \/ CallReadModbus(BaseAddress, "DW")
    \/ \E s \in TornScripts : execute_script_begin("t1", s)
    \/ lua_execute("t1")
    \/ WAIT_modbus_low("t1")
    \/ WAIT_modbus_high("t1")
    \/ lua_execute_return("t1")
    \/ execute_script_success("t1")

SpecTorn == Init /\ [][NextTorn]_vars

\* One caller running chunks that block in WAIT, DELAY or an auto-reversal
\* sleep, while other callers use the accessors.
BlockScripts ==
    { <<OpWAIT("DI", 1, "ON")>>,
      <<OpWAITm(BaseAddress, "W", 999)>>,
      <<OpDELAY(1)>>,
      <<OpDOd(1, "ON", 1)>> }

BlockPoint == PointData("GL_P1", 200, 200, -100)

BlockCalls ==
    \/ CallSetDI(1, TRUE)
    \/ CallGetDI(1)
    \/ CallSetDO(1, FALSE)
    \/ CallGetDO(1)
    \/ CallReadModbus(BaseAddress, "W")
    \/ CallWriteModbus(BaseAddress, Big(0, 999), "W")
    \/ CallSetGlobalPoint(1, BlockPoint)
    \/ CallGetGlobalPointNum(1)
    \/ CallReadPose

NextBlock ==
    \/ BlockCalls
    \/ \E s \in BlockScripts : execute_script_begin("t1", s)
    \/ lua_execute("t1")
    \/ lua_execute_return("t1")
    \/ WAIT("t1")
    \/ WAIT_poll("t1")
    \/ WAIT_modbus("t1")
    \/ WAIT_modbus_poll("t1")
    \/ DELAY("t1")
    \/ DELAY_wake("t1")
    \/ DO_single("t1")
    \/ DO_single_reverse("t1")
    \/ execute_script_success("t1")

SpecBlock == Init /\ [][NextBlock]_vars

\* Two callers inside the double-word register accessors at the same time.
RaceValues == {Big(0, 999), Big(4660, 22136), Big(65535, 65535)}

NextRace ==
    \E c \in Callers :
        \/ \E value \in RaceValues : write_modbus_low(c, BaseAddress, value)
        \/ write_modbus_high(c)
        \/ read_modbus_low(c, BaseAddress)
        \/ read_modbus_high(c)

SpecRace == Init /\ [][NextRace]_vars

\* The end-to-end chunk of test_script_execution, run by one caller; between
\* runs direct calls put the outputs and the registers in other states.
E2EDelays == {0, 1}

E2EScript(d) ==
    <<OpDO(1, "ON"), OpDELAY(d), OpDO(1, "OFF"), OpWriteModbus(BaseAddress, "W", 999),
      OpReadModbus(BaseAddress, "W"), OpPrintVal>>

QuietCall ==
    /\ \A t \in Threads : pc[t] = "idle"
    /\ \/ \E pin \in {1, 2}, state \in BOOLEAN : CallSetDO(pin, state)
       \/ \E address \in AddressInputs, size \in SizeInputs :
              \E value \in {Big(0, 5), Big(1, 4464)} : CallWriteModbus(address, value, size)

NextE2E ==
    \/ QuietCall
    \/ \E d \in E2EDelays : SequentialBegin("t1", E2EScript(d))
    \/ lua_execute("t1")
    \/ DO_single("t1")
    \/ DELAY("t1")
    \/ DELAY_wake("t1")
    \/ WriteModbus("t1")
    \/ ReadModbus("t1")
    \/ Lua_print("t1")
    \/ lua_execute_return("t1")
    \/ execute_script_success("t1")

SpecE2E == Init /\ [][NextE2E]_vars

\* One caller running chunks that make a single-pin DO call with a delay,
\* while other callers write and read the same outputs.
RevPins == {1, 12}
RevScripts == {<<OpDOd(p, s, 1)>> : p \in RevPins, s \in {"ON", "off"}}

NextRev ==
    \/ \E pin \in RevPins, state \in BOOLEAN : CallSetDO(pin, state)
    \/ \E pin \in RevPins : CallGetDO(pin)
    \/ \E s \in RevScripts : execute_script_begin("t1", s)
    \/ lua_execute("t1")
    \/ DO_single("t1")
    \/ DO_single_reverse("t1")
    \/ lua_execute_return("t1")
    \/ execute_script_success("t1")

SpecRev == Init /\ [][NextRev]_vars

\* One caller running chunks that set an output, or set it with a delay, and
\* no other writer.
SoloScripts ==
    {<<OpDO(p, "ON")>> : p \in RevPins}
        \cup {<<OpDOd(p, s, 1)>> : p \in RevPins, s \in {"ON", "OFF"}}
        \cup {<<OpExtDOd(1, 2, s, 1)>> : s \in {"ON", "OFF"}}

NextSolo ==
    \/ \E s \in SoloScripts : execute_script_begin("t1", s)
    \/ lua_execute("t1")
    \/ DO_single("t1")
    \/ DO_single_reverse("t1")
    \/ ExtDO("t1")
    \/ ExtDO_reverse("t1")
    \/ lua_execute_return("t1")
    \/ execute_script_success("t1")

SpecSolo == Init /\ [][NextSolo]_vars

\* Direct calls of the point accessors, while one caller runs chunks that store
\* points, in and out of the slot range, and look them up by name.
TableScripts ==
    { <<OpSetGlobalPoint(1, "GL_P2", 5, 6, 7), OpMovPn("GL_P1")>>,
      <<OpSetGlobalPoint(1001, "GL_P1", 1, 2, 3), OpSetGlobalPoint(0, "GL_P2", 1, 2, 3),
        OpMovLn("GL_P2")>>,
      <<OpSetGlobalPoint(1000, "GL_P1", 5, 6, 7), OpSpdJ(50), OpMovJ(1, 30)>> }

NextTable ==
    \/ \E point_num \in PointSlots, data \in PointInputs : CallSetGlobalPoint(point_num, data)
    \/ \E point \in PointSlots : CallGetGlobalPointNum(point)
    \/ \E point \in PointNames \cup {"GL_P3"} : CallGetGlobalPointName(point)
    \/ \E s \in TableScripts : execute_script_begin("t1", s)
    \/ lua_execute("t1")
    \/ SetGlobalPoint("t1")
    \/ MovP_MovL("t1")
    \/ MovJ("t1")
    \/ SpdJ("t1")
    \/ lua_execute_return("t1")
    \/ execute_script_success("t1")

SpecTable == Init /\ [][NextTable]_vars

\* One caller running chunks that move the arm and its joints between other
\* primitive calls, while direct calls store points: one with rotations, one
\* whose record has no rotation fields, one with all fields at the defaults.
MovPoints ==
    { [PointData("GL_P1", 200, 200, -100) EXCEPT !.rx = 10, !.ry = 20, !.rz = 30],
      [name |-> "GL_P2", x |-> 300, y |-> 0, z |-> 50],
      PointData("GL_P1", 0, 0, 0) }
MovScripts ==
    { <<OpMovP(1), OpMovJ(2, 45), OpSpdJ(50), OpMovLn("GL_P2")>>,
      <<OpMovLn("GL_P1"), OpMovJ(0, 10), OpMovJ(7, 10), OpMovP(2)>>,
      <<OpSetGlobalPoint(2, "GL_P2", 5, 6, 7), OpMovJ(6, -90), OpMovL(2), OpDO(1, "ON"),
        OpMovJ(1, 30)>> }

NextMov ==
    \/ \E point_num \in {1, 2}, data \in MovPoints : CallSetGlobalPoint(point_num, data)
    \/ CallReadPose
    \/ \E s \in MovScripts : execute_script_begin("t1", s)
    \/ lua_execute("t1")
    \/ MovP_MovL("t1")
    \/ MovJ("t1")
    \/ SpdJ("t1")
    \/ SetGlobalPoint("t1")
    \/ DO_single("t1")
    \/ lua_execute_return("t1")
    \/ execute_script_success("t1")

SpecMov == Init /\ [][NextMov]_vars

\* One caller running chunks that make a multiple-pin DO call with a delay,
\* while other callers write and read outputs inside and outside the range.
FlipStartPins == {1, 11, 12}
FlipLengths == {1, 2}
FlipPatterns == {0, 1, 2, -1}
FlipScripts ==
    {<<OpDOmd(p, n, b, 1)>> : p \in FlipStartPins, n \in FlipLengths, b \in FlipPatterns}
FlipPins == {1, 2, 3, 12}

NextFlip ==
    \/ \E pin \in FlipPins, state \in BOOLEAN : CallSetDO(pin, state)
    \/ \E pin \in FlipPins : CallGetDO(pin)
    \/ \E s \in FlipScripts : execute_script_begin("t1", s)
    \/ lua_execute("t1")
    \/ DO_multi("t1")
    \/ DO_multi_reverse("t1")
    \/ lua_execute_return("t1")
    \/ execute_script_success("t1")

SpecFlip == Init /\ [][NextFlip]_vars

----------------------------------------------------------------------------
\* Properties.

\* execute_script has returned to caller t and its result is still unread.
Returned(t) == pc[t] = "idle" /\ result[t].status # "none"

\* The chunk of t stopped at a raising statement.
Faulted(t) == ip[t] <= Len(script[t]) /\ script[t][ip[t]].op = "FAULT"

InProgress == {t \in Threads : pc[t] # "idle"}

\* C1: at most one script executes at any time; an invocation made while
\* another is in progress is rejected at once: it interprets nothing, runs no
\* primitive and leaves the log alone.
C1_AtMostOneScript ==
    /\ Cardinality(InProgress) <= 1
    /\ \A t \in Threads : busy_at_start[t] => pc[t] = "idle" /\ own[t] = <<>>

\* C2: an invocation made while a script is running returns a status that is
\* neither success nor error, and the script that was running returns the
\* lines its own primitives logged, in order, and nothing else.
C2_RejectionLeavesRunUnaffected ==
    \A t \in Threads :
        Returned(t) =>
            /\ busy_at_start[t] => result[t].status \notin {"success", "error"}
            /\ ~busy_at_start[t] =>
                   /\ result[t].output = own[t]
                   /\ result[t].status = IF Faulted(t) THEN "error" ELSE "success"

\* C3: a script that faults makes execute_script return status error with an
\* error message, the lines logged before the fault as output, and the busy
\* flag cleared when it returns.
C3_FaultResult ==
    \A t \in Threads :
        (Returned(t) /\ Faulted(t)) =>
            /\ result[t].status = "error"
            /\ result[t].error # <<>>
            /\ result[t].output = own[t]
            /\ ~flag_at_return[t]

\* C4: with callers that run scripts one after the other, a run that completes
\* normally returns success, no error, and exactly the lines its own primitive
\* calls appended, in order (none of an earlier run), leaving the flag cleared.
C4_SequentialSuccess ==
    \A t \in Threads :
        (Returned(t) /\ ~Faulted(t)) =>
            /\ result[t].status = "success"
            /\ result[t].error = <<>>
            /\ result[t].output = own[t]
            /\ ~flag_at_return[t]

\* Two runs have completed normally, each with lines of its own.
C4_Witness ==
    /\ runs = 2
    /\ \E t \in Threads : \E u \in Threads \ {t} :
          /\ Returned(t) /\ Returned(u)
          /\ result[t].status = "success" /\ result[u].status = "success"
          /\ own[t] # <<>> /\ own[u] # <<>>
          /\ own[t] # own[u]

\* C5: neither the start nor the end of a run touches the device state: the
\* start changes only the log and the busy flag, the end only the flag.
C5_DeviceNotReset ==
    [][\A t \in Threads :
          /\ (pc[t] = "idle" /\ pc'[t] # "idle") =>
                 /\ UNCHANGED device
                 /\ script_output' = <<>>
                 /\ script_running'
          /\ (pc[t] # "idle" /\ pc'[t] = "idle") =>
                 /\ UNCHANGED <<device, script_output>>
                 /\ ~script_running']_vars

\* A run starts after another has ended, and finds the outputs, the registers
\* or the point table as that run's primitives left them.
C5_Witness ==
    \E t \in Threads : \E u \in Threads \ {t} :
        /\ pc[t] = "run" /\ ip[t] = 1 /\ ~busy_at_start[t]
        /\ Returned(u) /\ own[u] # <<>>
        /\ \/ do_state # InitDO
           \/ modbus_registers # EmptyDict
           \/ global_points # <<>>

\* C6: the DI map keeps the keys 1..24 and the DO map the keys 1..12; a read of
\* a pin outside the range returns false, and a set_di / set_do call with a pin
\* outside the range leaves the map as it was.
C6_PinRange ==
    /\ [](/\ DOMAIN di_state = 1..24
          /\ DOMAIN do_state = 1..12
          /\ (call.fn = "get_di" /\ call.pin \notin 1..24) => call.retb = FALSE
          /\ (call.fn = "get_do" /\ call.pin \notin 1..12) => call.retb = FALSE)
    /\ [][/\ (UNCHANGED runtime /\ call'.fn = "set_di" /\ call'.pin \notin 1..24)
                 => di_state' = di_state
          /\ (UNCHANGED runtime /\ call'.fn = "set_do" /\ call'.pin \notin 1..12)
                 => do_state' = do_state]_vars

\* set_do(13, True) was just called while some output and some input are ON.
C6_Witness ==
    /\ call.fn = "set_do" /\ call.pin = 13 /\ call.state
    /\ \E q \in 1..12 : do_state[q]
    /\ \E q \in 1..24 : di_state[q]

\* value & 0xFFFFFFFF on two limbs
And32(value) == Big(value.hi % 65536, value.lo)

\* C7: a double-word read that directly follows a double-word write of v to
\* the same address returns v & 0xFFFFFFFF.
C7_DoubleWordRoundTrip ==
    (/\ prev.fn = "write_modbus" /\ prev.size = "DW"
     /\ call.fn = "read_modbus" /\ call.size = "DW"
     /\ call.address = prev.address)
        => call.ret = And32(prev.value)

\* -1 was written as a double word and read back as 0xFFFFFFFF.
C7_Witness ==
    /\ prev.fn = "write_modbus" /\ prev.size = "DW" /\ prev.value = Big(-1, 65535)
    /\ call.fn = "read_modbus" /\ call.size = "DW" /\ call.address = prev.address
    /\ call.ret = Big(65535, 65535)

\* C8: a word read that directly follows a word write of v to the same address
\* returns v & 0xFFFF, which is v when 0 <= v <= 65535; a read of addresses
\* never written returns 0; a read of either width leaves the register map as
\* it was.
C8_WordRoundTrip ==
    /\ [](/\ (/\ prev.fn = "write_modbus" /\ prev.size = "W"
              /\ call.fn = "read_modbus" /\ call.size = "W"
              /\ call.address = prev.address)
                 => /\ call.ret = Big(0, prev.value.lo)
                    /\ prev.value.hi = 0 => call.ret = prev.value
          /\ (/\ call.fn = "read_modbus" /\ call.size = "W"
              /\ call.address \notin DOMAIN modbus_registers)
                 => call.ret = Big(0, 0)
          /\ (/\ call.fn = "read_modbus" /\ call.size = "DW"
              /\ call.address \notin DOMAIN modbus_registers
              /\ call.address + 1 \notin DOMAIN modbus_registers)
                 => call.ret = Big(0, 0))
    /\ [][call'.fn = "read_modbus" => modbus_registers' = modbus_registers]_vars

\* 70000 was written as a word and read back as 70000 & 0xFFFF = 4464.
C8_Witness ==
    /\ prev.fn = "write_modbus" /\ prev.size = "W" /\ prev.value = Big(1, 4464)
    /\ call.fn = "read_modbus" /\ call.size = "W" /\ call.address = prev.address
    /\ call.ret = Big(0, 4464)

\* The levels of outputs p .. p + n - 1 packed like DI(p, n) packs inputs.
DO_packed(do, p, n) == DI_multi(do, p, n)

\* C9: DO(p, n, b) without delay sets every output p + i in 1..12 (i < n) to
\* bit i of b, leaves the other outputs alone and drops the pins outside 1..12
\* without a fault; when p .. p + n - 1 lies in 1..12 the packed levels are
\* b mod 2^n.
C9_MultiPinPacking ==
    [][\A t \in Threads :
          (AtOp(t, {"DOm"}) /\ ~Cur(t).has_delay /\ ip'[t] = ip[t] + 1) =>
              LET p == Cur(t).pin_index
                  n == Cur(t).length
                  b == Cur(t).status_num
              IN /\ \A i \in 0..(n - 1) :
                        (p + i) \in 1..12 => do_state'[p + i] = (BitOf(b, i) = 1)
                 /\ \A q \in 1..12 : (q < p \/ q >= p + n) => do_state'[q] = do_state[q]
                 /\ DOMAIN do_state' = 1..12
                 /\ pc'[t] = "run"
                 /\ (p >= 1 /\ p + n - 1 <= 12) =>
                        DO_packed(do_state', p, n) = b % (2 ^ n)]_vars

\* DO(5, 4, 10) has just run on outputs 5..8 that were 0101, and they pack to
\* 10; output 9, set by an earlier run, is still ON.
C9_Witness ==
    /\ pc["t1"] = "run" /\ ip["t1"] = 2
    /\ script["t1"] = <<OpDOm(5, 4, 10)>>
    /\ do_state[9]
    /\ DO_packed(do_state, 5, 4) = 10

\* The primitive calls that read or write device state.
TouchesDevice(o) ==
    \/ o.op \in {"DI", "DIm", "DO", "DOm", "ExtDI", "ExtDO", "MovP", "MovL",
                 "SetGlobalPoint", "ReadPoint", "SpdJ", "ReadModbus", "WriteModbus"}
    \/ o.op = "MovJ" /\ o.joint \in 1..6

\* C10: every primitive call that reads or writes device state appends a log
\* line, and so does the second write of an auto-reversal.
C10_AuditTrail ==
    [][\A t \in Threads :
          LET called == /\ pc[t] = "run" /\ ip[t] <= Len(script[t])
                        /\ TouchesDevice(Cur(t))
                        /\ (pc'[t] = "sleep" \/ ip'[t] = ip[t] + 1)
              reversed == /\ pc[t] = "sleep" /\ pc'[t] = "run"
                          /\ Cur(t).op \in {"DO", "DOm", "ExtDO"}
          IN (called \/ reversed) => Len(own'[t]) > Len(own[t])]_vars

\* The point reference of a MovP / MovL call resolves to no stored point.
Unresolved(o) ==
    \A i \in 1..Len(global_points) :
        IF o.by_name THEN global_points[i].data.name # o.name
        ELSE global_points[i].slot # o.point_num

\* C11: MovP or MovL with a slot number or a name that resolves to no stored
\* point leaves the Cartesian position and the joint angles as they were and
\* appends exactly one log line, which says that the point was not found.
C11_UnknownPointNoMotion ==
    [][\A t \in Threads :
          (AtOp(t, {"MovP", "MovL"}) /\ ip'[t] = ip[t] + 1 /\ Unresolved(Cur(t))) =>
              /\ current_position' = current_position
              /\ joint_angles' = joint_angles
              /\ Len(script_output') = Len(script_output) + 1
              /\ SubSeq(script_output', 1, Len(script_output)) = script_output
              /\ script_output'[Len(script_output')] =
                     Cur(t).op \o "(" \o PointRef(Cur(t)) \o ") - Point not found"]_vars

\* The arm was moved to GL_P1 and then MovL(1000) found no point in slot 1000 of
\* a table that holds other points: the arm is still at GL_P1.
C11_Witness ==
    /\ script["t1"] = <<OpMovPn("GL_P1"), OpMovL(1000)>>
    /\ pc["t1"] = "run" /\ ip["t1"] = 3
    /\ global_points # <<>>
    /\ current_position.x \in {200, 300}
    /\ Len(script_output) = 2
    /\ script_output[2] = "MovL(1000) - Point not found"

\* The items of the point table.
Items == {global_points[i] : i \in 1..Len(global_points)}

\* C12: for a point with name N stored in slot s, get_global_point(s) and
\* get_global_point(N) both return the record of slot s; a slot that holds no
\* point and a name that no stored point carries give None; only slots in
\* 1..1000 hold points.
C12_PointResolution ==
    /\ \A it \in Items : 1 <= it.slot /\ it.slot <= 1000
    /\ (call.fn = "get_global_point" /\ ~call.by_name) =>
           /\ \A it \in Items : it.slot = call.point_num => call.retp = <<it.data>>
           /\ (\A it \in Items : it.slot # call.point_num) => call.retp = <<>>
    /\ (call.fn = "get_global_point" /\ call.by_name) =>
           /\ \A it \in Items : it.data.name = call.name => call.retp = <<it.data>>
           /\ (\A it \in Items : it.data.name # call.name) => call.retp = <<>>

\* C12 as amended: get_global_point(s) returns the record of slot s, and
\* get_global_point(N) the record of the first point in the table's insertion
\* order that carries name N, which is the record of slot s when s is the only
\* slot whose point carries N; a slot that holds no point and a name that no
\* stored point carries give None; only slots in 1..1000 hold points, and a
\* lookup leaves the table as it was.
C12_FirstMatchResolution ==
    /\ [](/\ \A it \in Items : 1 <= it.slot /\ it.slot <= 1000
          /\ (call.fn = "get_global_point" /\ ~call.by_name) =>
                 /\ \A it \in Items : it.slot = call.point_num => call.retp = <<it.data>>
                 /\ (\A it \in Items : it.slot # call.point_num) => call.retp = <<>>
          /\ (call.fn = "get_global_point" /\ call.by_name) =>
                 /\ \A i \in 1..Len(global_points) :
                        (/\ global_points[i].data.name = call.name
                         /\ \A j \in 1..(i - 1) : global_points[j].data.name # call.name)
                            => call.retp = <<global_points[i].data>>
                 /\ (\A it \in Items : it.data.name # call.name) => call.retp = <<>>)
    /\ [][(UNCHANGED runtime /\ call'.fn = "get_global_point")
              => global_points' = global_points]_vars

\* Two slots hold different records under the name GL_P1, and the lookup of
\* GL_P1 has returned the record of the slot that was filled first.
C12_Witness ==
    /\ call.fn = "get_global_point" /\ call.by_name /\ call.name = "GL_P1"
    /\ Len(global_points) = 2
    /\ global_points[1].data.name = "GL_P1" /\ global_points[2].data.name = "GL_P1"
    /\ global_points[1].data # global_points[2].data
    /\ call.retp = <<global_points[1].data>>

\* Caller t is inside the WAIT call that is statement k of its chunk, and the
\* call was given a timeout.
InBoundedWait(t, k) ==
    /\ pc[t] \in {"run", "sleep"}
    /\ ip[t] = k /\ k <= Len(script[t])
    /\ script[t][k].op = "WAIT" /\ script[t][k].has_timeout

\* C13: a WAIT on DI or DO that is given a timeout of 0 ms or more eventually
\* returns, also when the polled line never takes the awaited status.
C13_BoundedWaitReturns ==
    \A t \in Threads : \A k \in 1..2 :
        InBoundedWait(t, k) ~> (pc[t] = "run" /\ ip[t] = k + 1)

\* Some script is blocked in time.sleep: in WAIT, DELAY or an auto-reversal.
Blocked == \E t \in Threads : pc[t] = "sleep"

\* The line or register a WAIT call of the form o polls has what o awaits.
Awaited(o) ==
    IF o.op = "WAITm"
    THEN DictGet(modbus_registers, o.address, 0) = o.value
    ELSE (IF Upper(o.io_type) = "DI" THEN get_di(di_state, o.pin_index)
          ELSE get_do(do_state, o.pin_index)) = (Upper(o.status) = "ON")

\* C14: while a script is blocked in WAIT, DELAY or an auto-reversal sleep,
\* every accessor call of another caller is enabled; such a call is one step
\* that leaves the script where it is, its write lands at once, and the next
\* pass of a WAIT that finds the awaited value returns without a timeout line.
C14_AccessorsNotBlocked ==
    /\ [](Blocked =>
             /\ \A state \in BOOLEAN : ENABLED CallSetDI(1, state)
             /\ ENABLED CallGetDI(1)
             /\ \A state \in BOOLEAN : ENABLED CallSetDO(1, state)
             /\ ENABLED CallGetDO(1)
             /\ ENABLED CallReadModbus(BaseAddress, "W")
             /\ ENABLED CallWriteModbus(BaseAddress, Big(0, 999), "W")
             /\ ENABLED CallSetGlobalPoint(1, BlockPoint)
             /\ ENABLED CallGetGlobalPointNum(1)
             /\ ENABLED CallReadPose)
    /\ [][(Blocked /\ UNCHANGED runtime) =>
              /\ call'.fn = "set_di" => di_state'[call'.pin] = call'.state
              /\ call'.fn = "set_do" => do_state'[call'.pin] = call'.state
              /\ call'.fn = "write_modbus" =>
                     modbus_registers'[call'.address] = call'.value.lo]_vars
    /\ [][\A t \in Threads :
              (/\ pc[t] = "sleep" /\ Cur(t).op \in {"WAIT", "WAITm"}
               /\ Awaited(Cur(t))
               /\ <<pc[t], waited[t]>> # <<pc'[t], waited'[t]>>)
                  => /\ pc'[t] = "run" /\ ip'[t] = ip[t] + 1
                     /\ own'[t] = own[t]]_vars

\* WAIT("DI", 1, "ON") found the input OFF, slept, and has returned after the
\* input was switched ON by a direct set_di call.
C14_Witness ==
    /\ script["t1"] = <<OpWAIT("DI", 1, "ON")>>
    /\ pc["t1"] = "run" /\ ip["t1"] = 2
    /\ waited["t1"] > 0
    /\ own["t1"] = <<"WAIT(DI, 1, ON)">>
    /\ di_state[1]

\* C15: the accessors are atomic with respect to each other: a double-word
\* read that runs while double-word writes to the same address run returns a
\* complete double word, the one the cells held before or the one of a write,
\* never the low half of one and the high half of another.
C15_AtomicDoubleWord ==
    \A c \in Callers :
        (acc[c].fn = "read_modbus" /\ acc[c].at = "out") => acc[c].ret \in acc[c].whole

\* C16: run with no concurrent activity from any state of the outputs and the
\* registers, the chunk DO(1,"ON"); DELAY(d); DO(1,"OFF");
\* WriteModbus(0x1000,"W",999); v = ReadModbus(0x1000,"W"); print(v) returns
\* success with no error, leaves output 1 OFF and register 0x1000 at 999, and
\* its output is the lines of the calls in call order, the last one the print
\* line of 999.
C16_EndToEnd ==
    [][\A t \in Threads : \A d \in E2EDelays :
          (pc[t] = "returning" /\ pc'[t] = "idle" /\ script[t] = E2EScript(d)) =>
              /\ result'[t].status = "success"
              /\ result'[t].error = <<>>
              /\ do_state'[1] = FALSE
              /\ modbus_registers'[4096] = 999
              /\ result'[t].output =
                     <<"DO(1, ON)", "DELAY(" \o ToString(d) \o "s)", "DO(1, OFF)",
                       "WriteModbus(0x1000, W, 999)", "ReadModbus(0x1000, W) = 999",
                       "[PRINT] 999">>]_vars

\* The chunk has returned after a run that found output 1 ON and the register
\* pair 0x1000 / 0x1001 written by earlier direct calls.
C16_Witness ==
    /\ Returned("t1") /\ result["t1"].status = "success"
    /\ call.fn = "set_do" /\ call.pin = 1 /\ call.state
    /\ ~do_state[1]
    /\ DictGet(modbus_registers, 4097, 0) # 0
    /\ modbus_registers[4096] = 999
    /\ result["t1"].output[6] = "[PRINT] 999"

\* C17: after any sequence of word and double-word writes and reads, with
\* negative values and values above 32 bits among them, every value stored in
\* the register map lies in 0..65535.
C17_StoredIn16Bits ==
    \A a \in DOMAIN modbus_registers :
        0 <= modbus_registers[a] /\ modbus_registers[a] <= 65535

\* -70000 has just been written as a double word: the cells hold 0xEE90 and
\* 0xFFFE.
C17_Witness ==
    /\ call.fn = "write_modbus" /\ call.size = "DW" /\ call.value = Big(-2, 61072)
    /\ modbus_registers[call.address] = 61072
    /\ modbus_registers[call.address + 1] = 65534

\* C18: a double-word write of v to a stores v & 0xFFFF at a and
\* (v >> 16) & 0xFFFF at a + 1 and changes no other address; a word write to
\* a changes only the low half, and one to a + 1 only the high half, of what a
\* double-word read of a returns; a double-word read returns the cell a + 1
\* above the cell a; and of two double-word writes at a and a + 1 the second
\* overwrites the high half of the first at a + 1.
C18_DoubleWordLayout ==
    /\ [][call'.fn = "write_modbus" =>
              LET a == call'.address
                  v == call'.value
                  touched == IF call'.size = "DW" THEN {a, a + 1} ELSE {a}
              IN /\ modbus_registers'[a] = v.lo
                 /\ call'.size = "DW" => modbus_registers'[a + 1] = v.hi % 65536
                 /\ DOMAIN modbus_registers' = DOMAIN modbus_registers \cup touched
                 /\ \A b \in DOMAIN modbus_registers \ touched :
                        modbus_registers'[b] = modbus_registers[b]
                 /\ call'.size = "W" =>
                        /\ read_modbus(modbus_registers', a, "DW").lo = v.lo
                        /\ read_modbus(modbus_registers', a, "DW").hi =
                               read_modbus(modbus_registers, a, "DW").hi
                        /\ read_modbus(modbus_registers', a - 1, "DW").hi = v.lo
                        /\ read_modbus(modbus_registers', a - 1, "DW").lo =
                               read_modbus(modbus_registers, a - 1, "DW").lo]_vars
    /\ []((call.fn = "read_modbus" /\ call.size = "DW") =>
              call.ret = Big(DictGet(modbus_registers, call.address + 1, 0),
                             DictGet(modbus_registers, call.address, 0)))
    /\ []((/\ prev.fn = "write_modbus" /\ prev.size = "DW"
            /\ call.fn = "write_modbus" /\ call.size = "DW"
            /\ call.address = prev.address + 1) =>
              /\ modbus_registers[prev.address] = prev.value.lo
              /\ modbus_registers[prev.address + 1] = call.value.lo
              /\ modbus_registers[prev.address + 2] = call.value.hi % 65536)

\* 0x12345678 was written as a double word at 0x1000 and then 0xFFFFFFFF at
\* 0x1001: the cells hold 0x5678, 0xFFFF, 0xFFFF.
C18_Witness ==
    /\ prev.fn = "write_modbus" /\ prev.size = "DW" /\ prev.address = 4096
    /\ prev.value = Big(4660, 22136)
    /\ call.fn = "write_modbus" /\ call.size = "DW" /\ call.address = 4097
    /\ call.value = Big(65535, 65535)
    /\ modbus_registers = (4096 :> 22136) @@ (4097 :> 65535) @@ (4098 :> 65535)

\* Caller t is inside a single-pin DO call with a delay on an output in 1..12.
InDODelay(t) ==
    /\ pc[t] = "sleep" /\ Cur(t).op = "DO" /\ Cur(t).pin_index \in 1..12

Reversed(t) ==
    /\ pc[t] # "idle" /\ Len(script[t]) = 1 /\ ip[t] = 2
    /\ script[t][1].op \in {"DO", "ExtDO"} /\ script[t][1].has_delay

\* The level of the output that the call o drives.
Level(o) ==
    IF o.op = "DO" THEN get_do(do_state, o.pin_index)
    ELSE DictGet(ext_do_state, <<o.address, o.pin_index>>, FALSE)

\* C20: after DO(pin, status, delay) or ExtDO(address, pin, status, delay)
\* has completed with no other writer, the output holds the value it held
\* just before the call.
C20_BackToPrior ==
    \A t \in Threads : Reversed(t) => Level(script[t][1]) = prior[t]

\* C20 as amended: after the call has completed with no other writer, the
\* output (for DO, one in 1..12) holds the opposite of status; that is the
\* value it held just before the call exactly when that value differed from
\* status.
C20_OppositeOfStatus ==
    \A t \in Threads :
        (Reversed(t) /\ (script[t][1].op = "DO" => script[t][1].pin_index \in 1..12)) =>
            LET status == Upper(script[t][1].status) = "ON"
            IN /\ Level(script[t][1]) = ~status
               /\ (Level(script[t][1]) = prior[t]) <=> (prior[t] # status)

\* DO(1, "ON", 1) was called on an output that an earlier run had left ON, and
\* has completed: the output is OFF, not the ON it held before the call.
C20_Witness ==
    /\ script["t1"] = <<OpDOd(1, "ON", 1)>>
    /\ Reversed("t1")
    /\ prior["t1"]
    /\ ~do_state[1]

\* Caller t is inside the sleep of a multiple-pin DO call.
InFlipDelay(t) == pc[t] = "sleep" /\ Cur(t).op = "DOm"

\* Output q is one of the outputs pin .. pin + length - 1 of the call o.
Driven(o, q) == q >= o.pin_index /\ q < o.pin_index + o.length

Target(o) ==
    LET hits == {i \in 1..Len(global_points) :
                    IF o.by_name THEN global_points[i].data.name = o.name
                    ELSE global_points[i].slot = o.point_num}
    IN global_points[CHOOSE i \in hits : \A j \in hits : i <= j].data

\* The rotation field k of the record d, 0 when the record has none.
Rotation(d, k) == IF k \in DOMAIN d THEN d[k] ELSE 0

\* Caller t makes the MovP / MovL call it is at, and the reference resolves.
Moves(t) ==
    AtOp(t, {"MovP", "MovL"}) /\ ip'[t] = ip[t] + 1 /\ ~Unresolved(Cur(t))

\* C22: MovP or MovL with a reference that resolves to a stored point sets the
\* pose to the point's x, y, z, rx, ry, rz, with 0 for a rotation field the
\* record lacks, leaves joint angles, point table, I/O, registers and motion
\* settings alone and appends exactly one log line, the one naming the target;
\* and no other step changes the pose.
C22_MoveToPoint ==
    /\ [][\A t \in Threads :
              Moves(t) =>
                  LET d == Target(Cur(t))
                  IN /\ current_position' =
                            [x |-> d.x, y |-> d.y, z |-> d.z, rx |-> Rotation(d, "rx"),
                             ry |-> Rotation(d, "ry"), rz |-> Rotation(d, "rz")]
                     /\ UNCHANGED <<di_state, do_state, ext_di_state, ext_do_state,
                                    modbus_registers, joint_angles, global_points,
                                    motion_settings>>
                     /\ script_output' =
                            Append(script_output,
                                   Cur(t).op \o "(" \o PointRef(Cur(t)) \o ") -> ("
                                       \o ToString(d.x) \o ", " \o ToString(d.y) \o ", "
                                       \o ToString(d.z) \o ")")]_vars
    /\ [][current_position' # current_position => \E t \in Threads : Moves(t)]_vars

\* MovP(1) went to the point with rotations, then MovJ and SpdJ ran and left
\* the pose alone, then MovL("GL_P2") went to the point without rotation
\* fields: the rotations of the pose are back at 0.
C22_Witness ==
    /\ script["t1"] = <<OpMovP(1), OpMovJ(2, 45), OpSpdJ(50), OpMovLn("GL_P2")>>
    /\ pc["t1"] = "run" /\ ip["t1"] = 5
    /\ own["t1"][1] = "MovP(1) -> (200, 200, -100)"
    /\ own["t1"][4] = "MovL(GL_P2) -> (300, 0, 50)"
    /\ current_position = [x |-> 300, y |-> 0, z |-> 50, rx |-> 0, ry |-> 0, rz |-> 0]
    /\ joint_angles[2] = 45

\* C23: MovJ(j, degrees) with j in 1..6 sets joint j to degrees and leaves the
\* other joints and the Cartesian position alone; with j outside 1..6 it
\* changes no device state, and the chunk goes on without a fault.
C23_SingleJoint ==
    /\ [][\A t \in Threads :
              (AtOp(t, {"MovJ"}) /\ (pc'[t] # pc[t] \/ ip'[t] # ip[t])) =>
                  /\ pc'[t] = "run" /\ ip'[t] = ip[t] + 1 /\ exc'[t] = exc[t]
                  /\ current_position' = current_position
                  /\ IF Cur(t).joint \in 1..6
                     THEN /\ joint_angles'[Cur(t).joint] = Cur(t).degree
                          /\ \A k \in 1..6 :
                                k # Cur(t).joint => joint_angles'[k] = joint_angles[k]
                          /\ DOMAIN joint_angles' = 1..6
                     ELSE UNCHANGED device]_vars
    /\ [](\A t \in Threads : pc[t] # "raised" /\ result[t].status # "error")

\* MovJ(0, 10) and MovJ(7, 10) have run after a move to GL_P1: the chunk is at
\* its next statement and the joints set by an earlier run are as they were.
C23_Witness ==
    /\ script["t1"] = <<OpMovLn("GL_P1"), OpMovJ(0, 10), OpMovJ(7, 10), OpMovP(2)>>
    /\ pc["t1"] = "run" /\ ip["t1"] = 4
    /\ joint_angles = [InitJoints EXCEPT ![6] = -90, ![1] = 30]
    /\ current_position.x = 200

\* The slots of the point table in scan order.
SlotOrder(points) == [i \in 1..Len(points) |-> points[i].slot]

\* C24: the table is scanned in the order in which its slots were first
\* created: a write to a new slot adds it at the end, a write to an existing
\* slot replaces its record in place; get_global_point(name) returns the
\* record of the first slot in that order whose point carries the name, and
\* None only when no stored point carries it.
C24_FirstMatchWins ==
    /\ [][global_points' # global_points =>
              \/ /\ Len(global_points') = Len(global_points) + 1
                 /\ SubSeq(global_points', 1, Len(global_points)) = global_points
                 /\ \A i \in 1..Len(global_points) :
                        global_points[i].slot # global_points'[Len(global_points')].slot
              \/ /\ SlotOrder(global_points') = SlotOrder(global_points)
                 /\ \E i \in 1..Len(global_points) :
                        \A j \in 1..Len(global_points) :
                            j # i => global_points'[j] = global_points[j]]_vars
    /\ [][(call' # call /\ call'.fn = "get_global_point" /\ call'.by_name) =>
              LET hits == {i \in 1..Len(global_points) :
                              global_points[i].data.name = call'.name}
              IN /\ hits = {} <=> call'.retp = <<>>
                 /\ \A i \in hits :
                        (\A j \in hits : i <= j) => call'.retp = <<global_points[i].data>>]_vars

\* Slot 1000 was created before slot 1, both points are named GL_P1 and their
\* records differ: the lookup of GL_P1 returned the record of slot 1000.
C24_Witness ==
    /\ call.fn = "get_global_point" /\ call.by_name /\ call.name = "GL_P1"
    /\ SlotOrder(global_points) = <<1000, 1>>
    /\ global_points[1].data.name = "GL_P1" /\ global_points[2].data.name = "GL_P1"
    /\ global_points[1].data.x = 300 /\ global_points[2].data.x = 200
    /\ call.retp = <<global_points[1].data>>

\* The step is a direct call of set_global_point, or the SetGlobalPoint call of
\* a chunk.
SetsPoint ==
    \/ UNCHANGED <<pc, ip>> /\ call'.fn = "set_global_point"
    \/ \E t \in Threads : AtOp(t, {"SetGlobalPoint"}) /\ ip'[t] = ip[t] + 1

\* The slot that a step which sets a point names.
SlotSet ==
    IF \E t \in Threads : AtOp(t, {"SetGlobalPoint"}) /\ ip'[t] = ip[t] + 1
    THEN (CHOOSE o \in {Cur(t) : t \in {u \in Threads : /\ AtOp(u, {"SetGlobalPoint"})
                                                       /\ ip'[u] = ip[u] + 1}} : TRUE).point_num
    ELSE call'.point_num

\* C28: every key of the point table lies in 1..1000 and occurs once; the
\* table changes only in a set_global_point / SetGlobalPoint call, and only
\* when the slot lies in 1..1000; and right after slot s is overwritten with
\* a point of another name, the lookup of the old name returns None or the
\* record of another slot that carries the old name, never one of slot s.
C28_PointTable ==
    /\ [](/\ \A i \in 1..Len(global_points) :
                 /\ global_points[i].slot \in 1..1000
                 /\ \A j \in 1..Len(global_points) :
                        global_points[j].slot = global_points[i].slot => j = i
          /\ \A n \in PointNames \cup {"GL_P3"} :
                 LET found == get_global_point_name(global_points, n)
                 IN found # <<>> =>
                        /\ found[1].name = n
                        /\ \E i \in 1..Len(global_points) : global_points[i].data = found[1])
    /\ [][global_points' # global_points => (SetsPoint /\ SlotSet \in 1..1000)]_vars
    /\ [][\A i \in 1..Len(global_points) :
              (/\ i <= Len(global_points')
               /\ global_points'[i].data.name # global_points[i].data.name) =>
                  LET found == get_global_point_name(global_points', global_points[i].data.name)
                  IN /\ global_points'[i].slot = global_points[i].slot
                     /\ found # <<global_points'[i].data>>
                     /\ found # <<>> =>
                            \E j \in 1..Len(global_points') :
                                /\ j # i
                                /\ global_points'[j].data = found[1]
                                /\ found[1].name = global_points[i].data.name]_vars

\* A direct call stored a point named GL_P1 in slot 1, then the chunk
\* overwrote slot 1 with one named GL_P2 and looked GL_P1 up: the point was
\* not found.
C28_Witness ==
    /\ script["t1"] = <<OpSetGlobalPoint(1, "GL_P2", 5, 6, 7), OpMovPn("GL_P1")>>
    /\ pc["t1"] = "run" /\ ip["t1"] = 3
    /\ call.fn = "set_global_point" /\ call.point_num = 1
    /\ call.data[1].name = "GL_P1"
    /\ global_points = <<[slot |-> 1, data |-> PointData("GL_P2", 5, 6, 7)]>>
    /\ own["t1"][2] = "MovP(GL_P1) - Point not found"

\* Caller t is in a WAIT call on a line: about to make it, or in its sleep.
InLineWait(t) ==
    /\ pc[t] \in {"run", "sleep"} /\ ip[t] <= Len(script[t]) /\ Cur(t).op = "WAIT"

\* The line that the WAIT call of caller t logs when it starts.
WaitLine(t) ==
    "WAIT(" \o Upper(Cur(t).io_type) \o ", " \o ToString(Cur(t).pin_index) \o ", "
        \o OnOff(Upper(Cur(t).status) = "ON") \o ")"

\* C25: a WAIT on DI or DO logs its WAIT line when it starts and no line while
\* it goes on polling; it returns only in a state where the polled line has
\* the awaited status or its timeout has elapsed, and it logs the timeout line
\* exactly when it returns with the line not at the awaited status.
C25_WaitReturn ==
    [][\A t \in Threads :
          (InLineWait(t) /\ (pc'[t] # pc[t] \/ ip'[t] # ip[t] \/ waited'[t] # waited[t]
                             \/ own'[t] # own[t])) =>
              LET started == IF pc[t] = "run" THEN <<WaitLine(t)>> ELSE <<>>
                  met == Awaited(Cur(t))
              IN IF ip'[t] = ip[t]
                 THEN /\ pc'[t] = "sleep"
                      /\ ~met
                      /\ own'[t] = own[t] \o started
                 ELSE /\ pc'[t] = "run" /\ ip'[t] = ip[t] + 1
                      /\ met \/ (Cur(t).has_timeout /\ waited'[t] >= Cur(t).timeout)
                      /\ own'[t] = own[t] \o started
                                        \o (IF met THEN <<>> ELSE <<"WAIT timeout">>)
                      /\ UNCHANGED device]_vars

\* WAIT("DI", 1, "ON", 10) slept once; input 1 was switched ON by a direct
\* call, and the pass made after the deadline returned with the WAIT line
\* alone in the log.
C25_Witness ==
    /\ script["t1"] = <<OpWAITt("DI", 1, "ON", 10)>>
    /\ pc["t1"] = "run" /\ ip["t1"] = 2
    /\ waited["t1"] >= 10
    /\ di_state[1]
    /\ call.fn = "set_di" /\ call.state
    /\ own["t1"] = <<"WAIT(DI, 1, ON)">>

\* C26: a WAIT on a register returns only in a state where
\* read_modbus(address, width) equals the awaited value; it logs its WAIT line
\* when it starts and nothing else, and writes no device state.
C26_RegisterWait ==
    [][\A t \in Threads :
          (/\ pc[t] \in {"run", "sleep", "poll"} /\ ip[t] <= Len(script[t])
           /\ Cur(t).op = "WAITm"
           /\ (pc'[t] # pc[t] \/ ip'[t] # ip[t])) =>
              /\ UNCHANGED device
              /\ own'[t] = IF pc[t] = "run"
                           THEN Append(own[t], "WAIT(Modbus, " \o Hex04(Cur(t).address) \o ", "
                                                   \o Cur(t).size \o ", "
                                                   \o ToString(Cur(t).value) \o ")")
                           ELSE own[t]
              /\ ip'[t] # ip[t] =>
                     /\ pc'[t] = "run" /\ ip'[t] = ip[t] + 1
                     /\ read_modbus(modbus_registers', Cur(t).address, Cur(t).size)
                            = ToBig(Cur(t).value)]_vars

\* C27: the busy flag is set in every state in which some invocation of
\* execute_script has started and not yet returned, and clear in every state
\* in which none has.
C27_BusyFlag == script_running <=> (InProgress # {})

====
